---- MODULE Spec2Model ----
(***************************************************************************)
(* A model of the feed-forward neural network engine of src/ai.py:         *)
(* NeuralNetwork (construction, predict, current_cost, backprop,           *)
(* update_weights, train, save, load), Layer (forward, backward) and the   *)
(* Neuron accessors.                                                       *)
(*                                                                         *)
(* Numbers.  The code computes on IEEE doubles.  The model computes on the *)
(* grid of tenths: the integer v stands for the number v / Scale, where    *)
(* Scale is the denominator of LeakyReLU.leak = 0.1, so that every         *)
(* constant of the code but the cross-entropy clamp 1e-15 is a grid value. *)
(* Sums and differences are exact; a product, a quotient, exp and log are  *)
(* rounded to the nearest tenth.                                           *)
(*                                                                         *)
(* Arrays.  A numpy vector is a sequence of numbers, a matrix a sequence   *)
(* of rows.  An operation numpy refuses (shapes that do not broadcast, an  *)
(* index out of range) yields a result with ok = FALSE, which the calling  *)
(* action turns into the exception the code raises at that point.          *)
(***************************************************************************)
EXTENDS Integers, Sequences, FiniteSets, TLC

\* ---------------------------------------------------------------- bounds

\* The number of layers of a constructed network is at most MaxLayers.
MaxLayers == 3
\* Calls made on one network in one behaviour (predict, backprop, ...).
MaxSteps == 3
\* train calls made on one network in one behaviour.
MaxTrains == 1
\* The sizes passed to init_weights are at most MaxSize.
MaxSize == 3

\* ------------------------------------------------------ program constants

\* LeakyReLU.leak = 0.1 = 1 / LeakDen
LeakDen == 10
\* Sigmoid clamps its argument to [-709, 709]
SigmoidClip == 709

Scale == LeakDen

\* ---------------------------------------------------------------- numbers

Abs(x) == IF x < 0 THEN -x ELSE x

Max(x, y) == IF x > y THEN x ELSE y

Min(x, y) == IF x < y THEN x ELSE y

\* a / b rounded to the nearest integer (b > 0), halves upwards
RoundDiv(a, b) == (2 * a + b) \div (2 * b)

\* x * y on the grid
Mul(x, y) == RoundDiv(x * y, Scale)

\* x / y on the grid (y # 0)
Div(x, y) == IF y > 0 THEN RoundDiv(x * Scale, y) ELSE RoundDiv(-(x * Scale), -y)

\* np.clip(x, lo, hi)
Clip(x, lo, hi) == Max(lo, Min(hi, x))

\* ---------------------------------------------------------------- options

\* Python's None, and a present value
None == [some |-> FALSE, val |-> <<>>]

Some(v) == [some |-> TRUE, val |-> v]

\* The element of a one-element set.  {F(x) : x \in {e}} evaluates e once
\* and then F on its value; Only takes the result out again.
Only(S) == CHOOSE r \in S : TRUE

\* ----------------------------------------------------------------- arrays

RECURSIVE SumSeq(_)
SumSeq(s) == IF s = <<>> THEN 0 ELSE Head(s) + SumSeq(Tail(s))

Zeros(n) == [i \in 1..n |-> 0]

Bad == [ok |-> FALSE, v |-> <<>>]

Good(v) == [ok |-> TRUE, v |-> v]

\* the dot product of two vectors of one length, each product on the grid
DotVec(x, y) == SumSeq([i \in 1..Len(x) |-> Mul(x[i], y[i])])

\* W.dot(a): every row of W has the length of a
Dot(W, a) ==
    IF \A r \in 1..Len(W) : Len(W[r]) = Len(a)
    THEN Good([r \in 1..Len(W) |-> DotVec(W[r], a)])
    ELSE Bad

\* np.dot(W.T, g): W has as many rows as g has elements
DotT(W, g) ==
    IF Len(W) = Len(g) /\ Len(W) > 0
    THEN Good([c \in 1..Len(W[1]) |-> SumSeq([r \in 1..Len(W) |-> Mul(W[r][c], g[r])])])
    ELSE Bad

\* np.outer(g, a)
Outer(g, a) == [r \in 1..Len(g) |-> [c \in 1..Len(a) |-> Mul(g[r], a[c])]]

\* The shape two vectors broadcast to: equal lengths, or one of length 1.
BroadcastOk(x, y) == Len(x) = Len(y) \/ Len(x) = 1 \/ Len(y) = 1

BroadcastLen(x, y) == IF Len(x) = 1 THEN Len(y) ELSE Len(x)

\* element i of x seen at the broadcast shape
At(x, i) == IF Len(x) = 1 THEN x[1] ELSE x[i]

\* x + y with numpy's broadcasting
BAdd(x, y) ==
    IF BroadcastOk(x, y)
    THEN Good([i \in 1..BroadcastLen(x, y) |-> At(x, i) + At(y, i)])
    ELSE Bad

\* x *= y: the product must have the shape of x
IMul(x, y) ==
    IF Len(y) = Len(x) \/ Len(y) = 1
    THEN Good([i \in 1..Len(x) |-> Mul(x[i], At(y, i))])
    ELSE Bad

\* ------------------------------------------------------ activation functions

ActivationNames == {"Sigmoid", "ReLU", "LeakyReLU"}

\* 1 / (1 + exp(-x)) rounded to the nearest tenth
SigmoidCall(x) ==
    LET c == Clip(x, -(SigmoidClip * Scale), SigmoidClip * Scale) IN
    CASE c <= -30 -> 0
      [] c <= -18 -> 1
      [] c <= -11 -> 2
      [] c <= -7  -> 3
      [] c <= -3  -> 4
      [] c <= 2   -> 5
      [] c <= 6   -> 6
      [] c <= 10  -> 7
      [] c <= 17  -> 8
      [] c <= 29  -> 9
      [] OTHER    -> 10

SigmoidDerivative(x) == Mul(SigmoidCall(x), Scale - SigmoidCall(x))

ReLUCall(x) == Max(0, x)

ReLUDerivative(x) == IF x > 0 THEN Scale ELSE 0

LeakyReLUCall(x) == IF x > 0 THEN x ELSE RoundDiv(x, LeakDen)

LeakyReLUDerivative(x) == IF x > 0 THEN Scale ELSE Scale \div LeakDen

\* activation_func(z), elementwise
Activate(name, z) ==
    [i \in 1..Len(z) |->
        CASE name = "Sigmoid" -> SigmoidCall(z[i])
          [] name = "ReLU" -> ReLUCall(z[i])
          [] OTHER -> LeakyReLUCall(z[i])]

\* activation_func.derivative(z), elementwise
ActivateDerivative(name, z) ==
    [i \in 1..Len(z) |->
        CASE name = "Sigmoid" -> SigmoidDerivative(z[i])
          [] name = "ReLU" -> ReLUDerivative(z[i])
          [] OTHER -> LeakyReLUDerivative(z[i])]

\* np.random.normal(size = (input_size, output_size)): one of a few sample
\* matrices, picked by seed; ReLU takes the absolute values.
SampleNormal(rows, cols, seed) ==
    [r \in 1..rows |-> [c \in 1..cols |-> (((r + 2 * c + seed) % 3) - 1) * Scale]]

InitWeights(name, input_size, output_size, seed) ==
    IF name = "ReLU"
    THEN [r \in 1..input_size |-> [c \in 1..output_size |->
            Abs(SampleNormal(input_size, output_size, seed)[r][c])]]
    ELSE SampleNormal(input_size, output_size, seed)

\* ------------------------------------------------------------ loss functions

LossNames == {"MeanSquareError", "MeanAbsoluteError", "BinaryCrossEntropy",
              "CategoricalCrossEntropy"}

\* The cross-entropy losses clamp predictions to [1e-15, 1 - 1e-15]; 1e-15 is
\* below the grid, and the clamp keeps a prediction one grid step from 0 and 1.
ClipEps == 1

ClipPrediction(p) == Clip(p, ClipEps, Scale - ClipEps)

\* np.log(p) for a clamped prediction, rounded to the nearest tenth
Ln(p) ==
    CASE p <= 1 -> -23
      [] p = 2 -> -16
      [] p = 3 -> -12
      [] p = 4 -> -9
      [] p = 5 -> -7
      [] p = 6 -> -5
      [] p = 7 -> -4
      [] p = 8 -> -2
      [] p = 9 -> -1
      [] OTHER -> 0

\* loss_func.derivative(p, t) of one element
LossDerivative1(name, p, t) ==
    CASE name = "MeanSquareError" -> 2 * (p - t)
      [] name = "MeanAbsoluteError" -> IF p > t THEN Scale ELSE -Scale
      [] name = "BinaryCrossEntropy" ->
            Div(ClipPrediction(p) - t, Mul(ClipPrediction(p), Scale - ClipPrediction(p)))
      [] OTHER -> Div(-t, ClipPrediction(p))

\* loss_func.derivative(predictions, targets): elementwise, with numpy's
\* broadcasting of the two vectors; no length is compared.
LossDerivative(name, predictions, targets) ==
    IF BroadcastOk(predictions, targets)
    THEN Good([i \in 1..BroadcastLen(predictions, targets) |->
                LossDerivative1(name, At(predictions, i), At(targets, i))])
    ELSE Bad

\* loss_func(p, t) of one element (the three elementwise losses)
LossCall1(name, p, t) ==
    CASE name = "MeanSquareError" -> Mul(p - t, p - t)
      [] name = "MeanAbsoluteError" -> Abs(p - t)
      [] OTHER -> -(Mul(t, Ln(ClipPrediction(p)))
                    + Mul(Scale - t, Ln(Scale - ClipPrediction(p))))

\* loss_func.cost(predictions, targets) for vectors of one length: the mean of
\* the elementwise loss.  CategoricalCrossEntropy sums over axis 1, which a
\* vector does not have: numpy raises AxisError.
LossCost(name, predictions, targets) ==
    IF name = "CategoricalCrossEntropy" \/ Len(predictions) = 0
    THEN Bad
    ELSE Good(<<RoundDiv(SumSeq([i \in 1..Len(predictions) |->
                    LossCall1(name, predictions[i], targets[i])]), Len(predictions))>>)

\* ------------------------------------------------------------------- Layer

\* Layer.__init__; has_prev is "previous_layer is not None", prev_count the
\* previous layer's neuron_count.
NewLayer(neuron_count, has_prev, prev_count, activation_func, seed) ==
    [neuron_count |-> neuron_count,
     activation_func |-> activation_func,
     weights |-> IF has_prev
                 THEN Some(InitWeights(activation_func, neuron_count, prev_count, seed))
                 ELSE None,
     biases |-> IF has_prev THEN Some(Zeros(neuron_count)) ELSE None,
     z |-> Zeros(neuron_count),
     activations |-> Zeros(neuron_count),
     a_grad |-> None,
     z_grad |-> None,
     w_grad |-> None]

\* Mutant of Forward: the activation is applied before z is recomputed.
ForwardActivationFirst(layer, prev_activations) ==
    LET wa == Dot(layer.weights.val, prev_activations)
        z == IF wa.ok THEN BAdd(wa.v, layer.biases.val) ELSE Bad
    IN  IF z.ok
        THEN [ok |-> TRUE,
              layer |-> [layer EXCEPT !.z = z.v,
                                      !.activations = Activate(layer.activation_func, layer.z)]]
        ELSE [ok |-> FALSE, layer |-> layer]

\* Mutant of Forward: the new z is added to the z of the call before.
ForwardAccumulating(layer, prev_activations) ==
    LET wa == Dot(layer.weights.val, prev_activations)
        z == IF wa.ok THEN BAdd(BAdd(wa.v, layer.biases.val).v, layer.z) ELSE Bad
    IN  IF z.ok
        THEN [ok |-> TRUE,
              layer |-> [layer EXCEPT !.z = z.v,
                                      !.activations = Activate(layer.activation_func, z.v)]]
        ELSE [ok |-> FALSE, layer |-> layer]

\* Layer.forward of a layer with a previous layer, whose activations are given
Forward(layer, prev_activations) ==
    LET wa == Dot(layer.weights.val, prev_activations)
        z == IF wa.ok THEN BAdd(wa.v, layer.biases.val) ELSE Bad
    IN  IF z.ok
        THEN [ok |-> TRUE,
              layer |-> [layer EXCEPT !.z = z.v,
                                      !.activations = Activate(layer.activation_func, z.v)]]
        ELSE [ok |-> FALSE, layer |-> layer]

\* ----------------------------------------------------------- NeuralNetwork

NoNetwork == [layers |-> <<>>, loss_func |-> "NoneType", cost |-> 0]

\* NeuralNetwork.cost of a network that was never trained: -1
UntrainedCost == -Scale

\* The activation_func argument: one strategy, or a list of them.  An entry
\* that is no ActivationFunction (None, from load) has no init_weights.
OneActivation(name) == [single |-> TRUE, names |-> <<name>>]

ActivationList(names) == [single |-> FALSE, names |-> names]

\* Mutant of NeuralNetworkInit: the length of a list of activations is not
\* compared with the number of layers.
NeuralNetworkInitAnyList(layer_neuron_counts, activation_func, loss_func, seed) ==
    LET n == Len(layer_neuron_counts)
        acts == IF activation_func.single
                THEN [i \in 1..(n - 1) |-> activation_func.names[1]]
                ELSE activation_func.names
    IN  IF n < 2 THEN [status |-> "ValueError", net |-> NoNetwork]
        ELSE IF \E i \in 1..(n - 1) : acts[i] \notin ActivationNames
        THEN [status |-> "AttributeError", net |-> NoNetwork]
        ELSE [status |-> "ok",
              net |-> [layers |-> [i \in 1..n |->
                          IF i = 1
                          THEN NewLayer(layer_neuron_counts[1], FALSE, 0, "Sigmoid", seed)
                          ELSE NewLayer(layer_neuron_counts[i], TRUE,
                                        layer_neuron_counts[i - 1], acts[i - 1], seed + i)],
                       loss_func |-> loss_func,
                       cost |-> UntrainedCost]]

\* Mutant of NeuralNetworkInit: the input layer is given the first activation
\* passed.
NeuralNetworkInitInputActivation(layer_neuron_counts, activation_func, loss_func, seed) ==
    LET n == Len(layer_neuron_counts)
        acts == IF activation_func.single
                THEN [i \in 1..(n - 1) |-> activation_func.names[1]]
                ELSE activation_func.names
    IN  IF n < 2 THEN [status |-> "ValueError", net |-> NoNetwork]
        ELSE IF Len(acts) # n - 1 THEN [status |-> "ValueError", net |-> NoNetwork]
        ELSE IF \E i \in 1..(n - 1) : acts[i] \notin ActivationNames
        THEN [status |-> "AttributeError", net |-> NoNetwork]
        ELSE [status |-> "ok",
              net |-> [layers |-> [i \in 1..n |->
                          IF i = 1
                          THEN NewLayer(layer_neuron_counts[1], FALSE, 0, acts[1], seed)
                          ELSE NewLayer(layer_neuron_counts[i], TRUE,
                                        layer_neuron_counts[i - 1], acts[i - 1], seed + i)],
                       loss_func |-> loss_func,
                       cost |-> UntrainedCost]]

\* Mutant of NeuralNetworkInit: the cost of a new network is 0.
NeuralNetworkInitZeroCost(layer_neuron_counts, activation_func, loss_func, seed) ==
    LET n == Len(layer_neuron_counts)
        acts == IF activation_func.single
                THEN [i \in 1..(n - 1) |-> activation_func.names[1]]
                ELSE activation_func.names
    IN  IF n < 2 THEN [status |-> "ValueError", net |-> NoNetwork]
        ELSE IF Len(acts) # n - 1 THEN [status |-> "ValueError", net |-> NoNetwork]
        ELSE IF \E i \in 1..(n - 1) : acts[i] \notin ActivationNames
        THEN [status |-> "AttributeError", net |-> NoNetwork]
        ELSE [status |-> "ok",
              net |-> [layers |-> [i \in 1..n |->
                          IF i = 1
                          THEN NewLayer(layer_neuron_counts[1], FALSE, 0, "Sigmoid", seed)
                          ELSE NewLayer(layer_neuron_counts[i], TRUE,
                                        layer_neuron_counts[i - 1], acts[i - 1], seed + i)],
                       loss_func |-> loss_func,
                       cost |-> 0]]

\* NeuralNetwork.__init__
NeuralNetworkInit(layer_neuron_counts, activation_func, loss_func, seed) ==
    LET n == Len(layer_neuron_counts)
        acts == IF activation_func.single
                THEN [i \in 1..(n - 1) |-> activation_func.names[1]]
                ELSE activation_func.names
    IN  IF n < 2 THEN [status |-> "ValueError", net |-> NoNetwork]
        ELSE IF Len(acts) # n - 1 THEN [status |-> "ValueError", net |-> NoNetwork]
        ELSE IF \E i \in 1..(n - 1) : acts[i] \notin ActivationNames
        THEN [status |-> "AttributeError", net |-> NoNetwork]
        ELSE [status |-> "ok",
              net |-> [layers |-> [i \in 1..n |->
                          IF i = 1
                          THEN NewLayer(layer_neuron_counts[1], FALSE, 0, "Sigmoid", seed)
                          ELSE NewLayer(layer_neuron_counts[i], TRUE,
                                        layer_neuron_counts[i - 1], acts[i - 1], seed + i)],
                       loss_func |-> loss_func,
                       cost |-> UntrainedCost]]

\* The layers from k on run forward() in order; the run stops at the first
\* layer whose shapes numpy refuses, the layers before it keeping their new
\* values.
RECURSIVE ForwardFrom(_, _)
ForwardFrom(layers, k) ==
    IF k > Len(layers) THEN [ok |-> TRUE, layers |-> layers]
    ELSE LET f == Forward(layers[k], layers[k - 1].activations) IN
         IF f.ok THEN ForwardFrom([layers EXCEPT ![k] = f.layer], k + 1)
         ELSE [ok |-> FALSE, layers |-> layers]

\* Mutant of PredictRun: the input is copied into the input layer before its
\* length is compared.
PredictRunCopyFirst(network, inputs) ==
    IF Len(network.layers[1].activations) # Len(inputs)
    THEN [status |-> "ValueError",
          net |-> [network EXCEPT !.layers[1].activations = inputs], val |-> <<>>]
    ELSE LET f == ForwardFrom([network.layers EXCEPT ![1].activations = inputs], 2) IN
         [status |-> IF f.ok THEN "ok" ELSE "ValueError",
          net |-> [network EXCEPT !.layers = f.layers],
          val |-> IF f.ok THEN f.layers[Len(f.layers)].activations ELSE <<>>]

\* NeuralNetwork.predict: the status, the network after the call and the
\* returned vector.
PredictRun(network, inputs) ==
    IF Len(network.layers[1].activations) # Len(inputs)
    THEN [status |-> "ValueError", net |-> network, val |-> <<>>]
    ELSE LET f == ForwardFrom([network.layers EXCEPT ![1].activations = inputs], 2) IN
         [status |-> IF f.ok THEN "ok" ELSE "ValueError",
          net |-> [network EXCEPT !.layers = f.layers],
          val |-> IF f.ok THEN f.layers[Len(f.layers)].activations ELSE <<>>]

\* Mutant of CurrentCostRun: only a target shorter than the output is refused.
CurrentCostRunLongTargets(network, targets) ==
    LET predictions == network.layers[Len(network.layers)].activations IN
    IF Len(predictions) > Len(targets) THEN [status |-> "ValueError", val |-> <<>>]
    ELSE IF network.loss_func \notin LossNames THEN [status |-> "AttributeError", val |-> <<>>]
    ELSE LET c == LossCost(network.loss_func, predictions, targets) IN
         IF c.ok THEN [status |-> "ok", val |-> c.v]
         ELSE [status |-> "AxisError", val |-> <<>>]

\* NeuralNetwork.current_cost: reads the network only
CurrentCostRun(network, targets) ==
    LET predictions == network.layers[Len(network.layers)].activations IN
    IF Len(predictions) # Len(targets) THEN [status |-> "ValueError", val |-> <<>>]
    ELSE IF network.loss_func \notin LossNames THEN [status |-> "AttributeError", val |-> <<>>]
    ELSE LET c == LossCost(network.loss_func, predictions, targets) IN
         IF c.ok THEN [status |-> "ok", val |-> c.v]
         ELSE [status |-> "AxisError", val |-> <<>>]

\* Mutant of BackwardFrom: a layer that already has an a_grad keeps it.
RECURSIVE BackwardFromStale(_, _, _, _)
BackwardFromStale(layers, k, zNew, wNew) ==
    IF k < 2 THEN [status |-> "ok", layers |-> layers, zNew |-> zNew, wNew |-> wNew]
    ELSE
    LET layer == layers[k]
        d == ActivateDerivative(layer.activation_func, layer.z)
        l1 == [layers EXCEPT ![k].z_grad = Some(d)]
        zg == IF layer.a_grad.some THEN IMul(d, layer.a_grad.val) ELSE Bad
        pa == IF zg.ok THEN DotT(layer.weights.val, zg.v) ELSE Bad
        l2 == [l1 EXCEPT ![k].z_grad = Some(zg.v),
                         ![k].w_grad = Some(Outer(zg.v, layers[k - 1].activations))]
    IN  IF ~layer.a_grad.some
        THEN [status |-> "TypeError", layers |-> l1, zNew |-> zNew \cup {k}, wNew |-> wNew]
        ELSE IF ~zg.ok
        THEN [status |-> "ValueError", layers |-> l1, zNew |-> zNew \cup {k}, wNew |-> wNew]
        ELSE IF ~pa.ok
        THEN [status |-> "ValueError", layers |-> l2,
              zNew |-> zNew \cup {k}, wNew |-> wNew \cup {k}]
        ELSE BackwardFromStale([l2 EXCEPT ![k - 1].a_grad = IF @.some THEN @ ELSE Some(pa.v)],
                               k - 1, zNew \cup {k}, wNew \cup {k})

\* Layer.backward on the layers k, k - 1, ..., 2 (the input layer's backward
\* does nothing).  zNew and wNew are the layers whose z_grad and w_grad are
\* arrays created by this run.  The run stops where numpy refuses a shape,
\* with what it assigned before.
RECURSIVE BackwardFrom(_, _, _, _)
BackwardFrom(layers, k, zNew, wNew) ==
    IF k < 2 THEN [status |-> "ok", layers |-> layers, zNew |-> zNew, wNew |-> wNew]
    ELSE
    LET layer == layers[k]
        d == ActivateDerivative(layer.activation_func, layer.z)
        l1 == [layers EXCEPT ![k].z_grad = Some(d)]
        zg == IF layer.a_grad.some THEN IMul(d, layer.a_grad.val) ELSE Bad
        pa == IF zg.ok THEN DotT(layer.weights.val, zg.v) ELSE Bad
        l2 == [l1 EXCEPT ![k].z_grad = Some(zg.v),
                         ![k].w_grad = Some(Outer(zg.v, layers[k - 1].activations))]
    IN  IF ~layer.a_grad.some
        THEN [status |-> "TypeError", layers |-> l1, zNew |-> zNew \cup {k}, wNew |-> wNew]
        ELSE IF ~zg.ok
        THEN [status |-> "ValueError", layers |-> l1, zNew |-> zNew \cup {k}, wNew |-> wNew]
        ELSE IF ~pa.ok
        THEN [status |-> "ValueError", layers |-> l2,
              zNew |-> zNew \cup {k}, wNew |-> wNew \cup {k}]
        ELSE BackwardFrom([l2 EXCEPT ![k - 1].a_grad = Some(pa.v)], k - 1,
                          zNew \cup {k}, wNew \cup {k})

\* Mutant of BackpropRun: the list is collected from the output layer back.
BackpropRunReversed(network, targets) ==
    LET n == Len(network.layers)
        d == LossDerivative(network.loss_func, network.layers[n].activations, targets)
        b == IF d.ok
             THEN BackwardFrom([network.layers EXCEPT ![n].a_grad = Some(d.v)], n, {}, {})
             ELSE [status |-> "ValueError", layers |-> network.layers, zNew |-> {}, wNew |-> {}]
    IN  IF network.loss_func \notin LossNames
        THEN [status |-> "AttributeError", net |-> network, zNew |-> {}, wNew |-> {},
              gradient |-> <<>>]
        ELSE [status |-> b.status,
              net |-> [network EXCEPT !.layers = b.layers],
              zNew |-> b.zNew, wNew |-> b.wNew,
              gradient |-> IF b.status = "ok"
                           THEN [i \in 1..(n - 1) |->
                                   [w |-> b.layers[n + 1 - i].w_grad.val,
                                    b |-> b.layers[n + 1 - i].z_grad.val,
                                    w_alias |-> TRUE, b_alias |-> TRUE]]
                           ELSE <<>>]

\* NeuralNetwork.backprop: the status, the network after the call, the layers
\* whose gradient buffers are new arrays, and the returned list: entry i holds
\* the w_grad and z_grad arrays of layer i + 1 themselves (w_alias, b_alias).
BackpropRun(network, targets) ==
    LET n == Len(network.layers)
        d == LossDerivative(network.loss_func, network.layers[n].activations, targets)
        b == IF d.ok
             THEN BackwardFrom([network.layers EXCEPT ![n].a_grad = Some(d.v)], n, {}, {})
             ELSE [status |-> "ValueError", layers |-> network.layers, zNew |-> {}, wNew |-> {}]
    IN  IF network.loss_func \notin LossNames
        THEN [status |-> "AttributeError", net |-> network, zNew |-> {}, wNew |-> {},
              gradient |-> <<>>]
        ELSE [status |-> b.status,
              net |-> [network EXCEPT !.layers = b.layers],
              zNew |-> b.zNew, wNew |-> b.wNew,
              gradient |-> IF b.status = "ok"
                           THEN [i \in 1..(n - 1) |->
                                   [w |-> b.layers[i + 1].w_grad.val,
                                    b |-> b.layers[i + 1].z_grad.val,
                                    w_alias |-> TRUE, b_alias |-> TRUE]]
                           ELSE <<>>]

\* Mutant of ClipVec: the gradient is not clipped.
ClipVecNone(g) == g

\* np.clip(g, -1.0, 1.0, out = g) on a vector and on a matrix
ClipVec(g) == [i \in 1..Len(g) |-> Clip(g[i], -Scale, Scale)]

ClipMat(G) == [r \in 1..Len(G) |-> ClipVec(G[r])]

\* x -= g * learning_rate on vectors: g * learning_rate must broadcast to x
ISubVec(x, g, learning_rate) ==
    IF Len(g) = Len(x) \/ Len(g) = 1
    THEN Good([i \in 1..Len(x) |-> x[i] - Mul(At(g, i), learning_rate)])
    ELSE Bad

\* W -= G * learning_rate on matrices
ISubMat(W, G, learning_rate) ==
    IF /\ Len(G) = Len(W) \/ Len(G) = 1
       /\ \A r \in 1..Len(W) : ISubVec(W[r], At(G, r), learning_rate).ok
    THEN Good([r \in 1..Len(W) |-> ISubVec(W[r], At(G, r), learning_rate).v])
    ELSE Bad

\* Mutant of UpdateFrom: the gradient is clipped into new arrays.
RECURSIVE UpdateFromCopies(_, _, _, _)
UpdateFromCopies(layers, grad, k, learning_rate) ==
    IF k > Len(layers) THEN [status |-> "ok", layers |-> layers, gradient |-> grad]
    ELSE IF k - 1 > Len(grad)
    THEN [status |-> "IndexError", layers |-> layers, gradient |-> grad]
    ELSE
    LET g == grad[k - 1]
        cw == ClipMat(g.w)
        cb == ClipVec(g.b)
        nw == ISubMat(layers[k].weights.val, cw, learning_rate)
        nb == ISubVec(layers[k].biases.val, cb, learning_rate)
    IN  IF ~nw.ok THEN [status |-> "ValueError", layers |-> layers, gradient |-> grad]
        ELSE IF ~nb.ok
        THEN [status |-> "ValueError",
              layers |-> [layers EXCEPT ![k].weights = Some(nw.v)], gradient |-> grad]
        ELSE UpdateFromCopies([layers EXCEPT ![k].weights = Some(nw.v),
                                             ![k].biases = Some(nb.v)],
                              grad, k + 1, learning_rate)

\* NeuralNetwork.update_weights from layer k on, idx = k - 2 entries of the
\* gradient consumed: clips entry idx in place (so the layer's own buffer too
\* when the entry is that buffer), then subtracts.
RECURSIVE UpdateFrom(_, _, _, _)
UpdateFrom(layers, grad, k, learning_rate) ==
    IF k > Len(layers) THEN [status |-> "ok", layers |-> layers, gradient |-> grad]
    ELSE IF k - 1 > Len(grad)
    THEN [status |-> "IndexError", layers |-> layers, gradient |-> grad]
    ELSE
    LET g == grad[k - 1]
        cw == ClipMat(g.w)
        cb == ClipVec(g.b)
        grad1 == [grad EXCEPT ![k - 1].w = cw, ![k - 1].b = cb]
        l1 == [layers EXCEPT ![k].w_grad = IF g.w_alias THEN Some(cw) ELSE @,
                             ![k].z_grad = IF g.b_alias THEN Some(cb) ELSE @]
        nw == ISubMat(layers[k].weights.val, cw, learning_rate)
        nb == ISubVec(layers[k].biases.val, cb, learning_rate)
    IN  IF ~nw.ok THEN [status |-> "ValueError", layers |-> l1, gradient |-> grad1]
        ELSE IF ~nb.ok
        THEN [status |-> "ValueError",
              layers |-> [l1 EXCEPT ![k].weights = Some(nw.v)], gradient |-> grad1]
        ELSE UpdateFrom([l1 EXCEPT ![k].weights = Some(nw.v), ![k].biases = Some(nb.v)],
                        grad1, k + 1, learning_rate)

UpdateWeightsRun(network, grad, learning_rate) ==
    LET u == UpdateFrom(network.layers, grad, 2, learning_rate) IN
    [status |-> u.status, net |-> [network EXCEPT !.layers = u.layers], gradient |-> u.gradient]

\* ------------------------------------------------------------------ Neuron

\* Neuron.weights, the setter, on neuron index of layer li
SetWeightsRun(network, li, index, value) ==
    IF li = 1 THEN [status |-> "Exception", net |-> network]
    ELSE IF Len(network.layers[li].weights.val[index]) # Len(value)
    THEN [status |-> "ValueError", net |-> network]
    ELSE [status |-> "ok",
          net |-> [network EXCEPT !.layers[li].weights.val[index] = value]]

\* Neuron.bias, the setter
SetBiasRun(network, li, index, value) ==
    IF li = 1 THEN [status |-> "Exception", net |-> network]
    ELSE IF index > Len(network.layers[li].biases.val)
    THEN [status |-> "IndexError", net |-> network]
    ELSE [status |-> "ok", net |-> [network EXCEPT !.layers[li].biases.val[index] = value]]

\* Mutant of SetActivationRun: the input layer's activations can be set.
SetActivationRunAnyLayer(network, li, index, value) ==
    IF index > Len(network.layers[li].activations)
    THEN [status |-> "IndexError", net |-> network]
    ELSE [status |-> "ok", net |-> [network EXCEPT !.layers[li].activations[index] = value]]

\* Neuron.activation, the setter
SetActivationRun(network, li, index, value) ==
    IF li = 1 THEN [status |-> "Exception", net |-> network]
    ELSE IF index > Len(network.layers[li].activations)
    THEN [status |-> "IndexError", net |-> network]
    ELSE [status |-> "ok", net |-> [network EXCEPT !.layers[li].activations[index] = value]]

\* ------------------------------------------------------------- file text

\* The text of a file is a sequence of symbols: the characters of numbers
\* ("-", ".", the digits), the separators "," and "\n", and one symbol for
\* each class name.

NL == "\n"

Comma == ","

Digits == <<"0", "1", "2", "3", "4", "5", "6", "7", "8", "9">>

IsDigit(c) == \E d \in 1..10 : Digits[d] = c

DigitValue(c) == (CHOOSE d \in 1..10 : Digits[d] = c) - 1

\* str(n) of a natural number
RECURSIVE NatStr(_)
NatStr(n) == IF n < 10 THEN <<Digits[n + 1]>> ELSE NatStr(n \div 10) \o <<Digits[(n % 10) + 1]>>

\* str(n) of an int (layer.neuron_count)
IntStr(n) == IF n < 0 THEN <<"-">> \o NatStr(-n) ELSE NatStr(n)

\* Mutant of FloatStr: the sign is not written.
FloatStrUnsigned(x) ==
    NatStr(Abs(x) \div Scale) \o <<".">> \o NatStr(Abs(x) % Scale)

\* str(x) of a numpy float: sign, integer part, ".", the decimals
FloatStr(x) ==
    (IF x < 0 THEN <<"-">> ELSE <<>>)
        \o NatStr(Abs(x) \div Scale) \o <<".">> \o NatStr(Abs(x) % Scale)

\* sep.join(parts)
RECURSIVE Join(_, _)
Join(parts, sep) ==
    IF parts = <<>> THEN <<>>
    ELSE IF Len(parts) = 1 THEN parts[1]
    ELSE parts[1] \o sep \o Join(Tail(parts), sep)

\* text.split(sep) for a separator of one symbol (sep = <<c>>) or of two
RECURSIVE SplitAcc(_, _, _)
SplitAcc(text, sep, cur) ==
    IF text = <<>> THEN <<cur>>
    ELSE IF Len(text) >= Len(sep) /\ SubSeq(text, 1, Len(sep)) = sep
    THEN <<cur>> \o SplitAcc(SubSeq(text, Len(sep) + 1, Len(text)), sep, <<>>)
    ELSE SplitAcc(Tail(text), sep, Append(cur, Head(text)))

Split(text, sep) == SplitAcc(text, sep, <<>>)

\* the value of a string of digits
RECURSIVE DigitsNat(_)
DigitsNat(ds) ==
    IF ds = <<>> THEN 0 ELSE 10 * DigitsNat(SubSeq(ds, 1, Len(ds) - 1)) + DigitValue(ds[Len(ds)])

AllDigits(ds) == \A i \in 1..Len(ds) : IsDigit(ds[i])

\* int(token): an optional sign and at least one digit, else ValueError
ParseInt(token) ==
    LET neg == token # <<>> /\ token[1] = "-"
        ds == IF neg THEN Tail(token) ELSE token
    IN  IF ds # <<>> /\ AllDigits(ds)
        THEN Good(IF neg THEN -DigitsNat(ds) ELSE DigitsNat(ds))
        ELSE Bad

\* float(token): an optional sign, digits, and optionally "." and decimals (at
\* least one digit in all), else ValueError; the value on the grid.
ParseFloat(token) ==
    LET neg == token # <<>> /\ token[1] = "-"
        body == IF neg THEN Tail(token) ELSE token
    IN  Only({
            LET ip == parts[1]
                fp == IF Len(parts) = 2 THEN parts[2] ELSE <<>>
                tenths == IF fp = <<>> THEN 0 ELSE DigitValue(fp[1])
                up == IF Len(fp) >= 2 /\ DigitValue(fp[2]) >= 5 THEN 1 ELSE 0
                mag == DigitsNat(ip) * Scale + tenths + up
            IN  IF Len(parts) <= 2 /\ AllDigits(ip) /\ AllDigits(fp) /\ Len(ip) + Len(fp) > 0
                THEN Good(IF neg THEN -mag ELSE mag)
                ELSE Bad
            : parts \in {Split(body, <<".">>)} })

\* NeuralNetwork.save: the text written to the file
SaveText(network) ==
    LET layers == network.layers
        n == Len(layers)
        block(k) ==
            <<NL, NL>>
            \o Join([i \in 1..Len(layers[k].biases.val) |-> FloatStr(layers[k].biases.val[i])],
                    <<Comma>>)
            \o Join([r \in 1..Len(layers[k].weights.val) |->
                        <<NL>> \o Join([c \in 1..Len(layers[k].weights.val[r]) |->
                                          FloatStr(layers[k].weights.val[r][c])], <<Comma>>)],
                    <<>>)
    IN  Join([i \in 1..n |-> IntStr(layers[i].neuron_count)], <<Comma>>)
        \o <<NL>>
        \o Join([i \in 1..(n - 1) |-> <<layers[i + 1].activation_func>>], <<Comma>>)
        \o <<NL>>
        \o <<network.loss_func>>
        \o Join([k \in 1..(n - 1) |-> block(k + 1)], <<>>)

\* The names load's get_class_by_name finds in the module's globals that are
\* classes it can instantiate without arguments.
ClassNames == ActivationNames \cup LossNames

\* The classes of the module whose constructor call raises TypeError: the two
\* abstract classes, and the classes with required arguments.
UncallableClassNames == {"ActivationFunction", "LossFunction", "NeuralNetwork", "Layer",
                         "Neuron"}

\* get_class_by_name(class_name): the instance (by its class name), None
\* ("NoneType") for a name that is no class of the module, or TypeError.
GetClassByName(token) ==
    IF Len(token) = 1 /\ token[1] \in ClassNames THEN [status |-> "ok", obj |-> token[1]]
    ELSE IF Len(token) = 1 /\ token[1] \in UncallableClassNames
    THEN [status |-> "TypeError", obj |-> "NoneType"]
    ELSE [status |-> "ok", obj |-> "NoneType"]

\* list(map(float, line.split(","))): the values, or ValueError
ParseFloats(line) ==
    Only({ IF \A i \in 1..Len(tokens) : ParseFloat(tokens[i]).ok
           THEN Good([i \in 1..Len(tokens) |-> ParseFloat(tokens[i]).v])
           ELSE Bad
           : tokens \in {Split(line, <<Comma>>)} })

\* list(map(int, line.split(","))): the values, or ValueError
ParseInts(line) ==
    Only({ IF \A i \in 1..Len(tokens) : ParseInt(tokens[i]).ok
           THEN Good([i \in 1..Len(tokens) |-> ParseInt(tokens[i]).v])
           ELSE Bad
           : tokens \in {Split(line, <<Comma>>)} })

\* load's inner loop over the lines of one block, from line i on (i = 1 is the
\* bias line), for the layer li (layer_idx = li - 1 in the code).
RECURSIVE LoadLines(_, _, _, _)
LoadLines(network, li, lines, i) ==
    IF i > Len(lines) THEN [status |-> "ok", net |-> network]
    ELSE Only({
        IF ~values.ok THEN [status |-> "ValueError", net |-> network]
        ELSE IF li > Len(network.layers) THEN [status |-> "IndexError", net |-> network]
        ELSE IF i = 1
        THEN LoadLines([network EXCEPT !.layers[li].biases = Some(values.v)],
                       li, lines, i + 1)
        ELSE IF i - 1 > Len(network.layers[li].weights.val)
        THEN [status |-> "IndexError", net |-> network]
        ELSE IF /\ Len(values.v) # Len(network.layers[li].weights.val[i - 1])
                /\ Len(values.v) # 1
        THEN [status |-> "ValueError", net |-> network]
        ELSE LoadLines([network EXCEPT !.layers[li].weights.val[i - 1] =
                           [c \in 1..Len(@) |-> At(values.v, c)]],
                       li, lines, i + 1)
        : values \in {ParseFloats(lines[i])} })

\* load's outer loop over the blocks after the header, from block b on
RECURSIVE LoadBlocks(_, _, _)
LoadBlocks(network, blocks, b) ==
    IF b > Len(blocks) THEN [status |-> "ok", net |-> network]
    ELSE Only({ IF r.status = "ok" THEN LoadBlocks(r.net, blocks, b + 1) ELSE r
                : r \in {LoadLines(network, b, lines, 1)
                         : lines \in {Split(blocks[b], <<NL>>)}} })

\* A file of the file system: absent, or its text
NoFile == [exists |-> FALSE, text |-> <<>>]

FileOf(text) == [exists |-> TRUE, text |-> text]

\* The body of load's "with open(filepath)" block on the text read: the
\* status and the network built.  seed picks the random weights the
\* constructor draws before the file's values overwrite them.
LoadText(text, seed) ==
    LET raise(e) == [status |-> e, none |-> FALSE, net |-> NoNetwork] IN
    Only({ Only({
        LET counts == ParseInts(header[1])
            names == Split(header[2], <<Comma>>)
            acts == [i \in 1..Len(names) |-> GetClassByName(names[i])]
            loss == GetClassByName(header[3])
        IN  IF Len(header) # 3 THEN raise("ValueError")
            ELSE IF ~counts.ok THEN raise("ValueError")
            ELSE IF \E i \in 1..Len(names) : acts[i].status # "ok" THEN raise("TypeError")
            ELSE IF loss.status # "ok" THEN raise("TypeError")
            ELSE Only({
                IF made.status # "ok" THEN raise(made.status)
                ELSE Only({ IF filled.status # "ok" THEN raise(filled.status)
                            ELSE [status |-> "ok", none |-> FALSE, net |-> filled.net]
                            : filled \in {LoadBlocks(made.net, blocks, 2)} })
                : made \in {NeuralNetworkInit(counts.v,
                                ActivationList([i \in 1..Len(names) |-> acts[i].obj]),
                                loss.obj, seed)} })
        : header \in {Split(blocks[1], <<NL>>)} })
        : blocks \in {Split(text, <<NL, NL>>)} })

\* Mutant of LoadRun: the file is opened without asking whether it exists.
LoadRunOpenFirst(file, seed) ==
    IF ~file.exists THEN [status |-> "FileNotFoundError", none |-> FALSE, net |-> NoNetwork]
    ELSE LoadText(file.text, seed)

\* NeuralNetwork.load(filepath) on the file at that path: the status, whether
\* None is returned, and the network returned.
LoadRun(file, seed) ==
    IF ~file.exists THEN [status |-> "ok", none |-> TRUE, net |-> NoNetwork]
    ELSE LoadText(file.text, seed)

\* ------------------------------------------------------------------ state

VARIABLES
    net,        \* the program's NeuralNetwork object (NoNetwork before construction)
    gradient,   \* the gradient list the caller holds (backprop's last return value)
    ret,        \* the last call: operation, arguments, outcome, returned value
    steps,      \* calls made on the network so far
    fs,         \* the file system: path -> file
    saved,      \* history: path -> the network whose save wrote the file there
    tr          \* the running train call: its locals, its position, and (seen)
                \* the examples it ran through predict and backprop this epoch

vars == <<net, gradient, ret, steps, fs, saved, tr>>

Paths == {"model.ai"}

Ret(op, status, arg, val) ==
    [op |-> op, status |-> status, arg |-> arg, val |-> val, path |-> "", none |-> FALSE]

NoTrain == [pc |-> "idle"]

Built == net # NoNetwork

Init ==
    /\ net = NoNetwork
    /\ gradient = <<>>
    /\ ret = Ret("init", "ok", <<>>, <<>>)
    /\ steps = 0
    /\ fs = [p \in Paths |-> NoFile]
    /\ saved = [p \in Paths |-> [valid |-> FALSE, net |-> NoNetwork]]
    /\ tr = NoTrain

\* ----------------------------------------------------------------- inputs

\* The constructor's arguments: networks of two to MaxLayers layers with every
\* activation and every loss, and the two argument lists the constructor
\* refuses (one layer; two activations for two layers).
ConfigInputs ==
    {c \in {[counts |-> <<2>>, act |-> OneActivation("Sigmoid"), loss |-> "MeanSquareError"],
            [counts |-> <<2, 1>>, act |-> ActivationList(<<"ReLU", "Sigmoid">>),
             loss |-> "MeanSquareError"],
            [counts |-> <<2, 1>>, act |-> OneActivation("Sigmoid"), loss |-> "MeanSquareError"],
            [counts |-> <<2, 1>>, act |-> OneActivation("ReLU"), loss |-> "MeanAbsoluteError"],
            [counts |-> <<1, 2>>, act |-> OneActivation("LeakyReLU"),
             loss |-> "BinaryCrossEntropy"],
            [counts |-> <<1, 2>>, act |-> OneActivation("Sigmoid"),
             loss |-> "CategoricalCrossEntropy"],
            [counts |-> <<2, 2>>, act |-> OneActivation("ReLU"), loss |-> "MeanSquareError"],
            [counts |-> <<2, 1, 2>>, act |-> ActivationList(<<"ReLU", "Sigmoid">>),
             loss |-> "MeanSquareError"],
            [counts |-> <<2, 1, 2>>, act |-> OneActivation("LeakyReLU"),
             loss |-> "MeanAbsoluteError"],
            [counts |-> <<1, 2, 1, 2>>, act |-> OneActivation("ReLU"),
             loss |-> "MeanSquareError"]} :
        Len(c.counts) <= MaxLayers}

Seeds == {0, 1}

InputVectors == {<<Scale>>, <<Scale, -Scale>>, <<0, 2 * Scale>>, <<Scale, 0, Scale>>}

TargetVectors == {<<Scale>>, <<0, Scale>>, <<Scale, 0, Scale>>}

LearningRates == {1}

\* a gradient list of the network's shapes, every element 5.0, in arrays of
\* the caller's own
FreshGradient(network) ==
    [i \in 1..(Len(network.layers) - 1) |->
        [w |-> [r \in 1..Len(network.layers[i + 1].weights.val) |->
                  [c \in 1..Len(network.layers[i + 1].weights.val[r]) |-> 5 * Scale]],
         b |-> [r \in 1..Len(network.layers[i + 1].biases.val) |-> 5 * Scale],
         w_alias |-> FALSE, b_alias |-> FALSE]]

\* ---------------------------------------------------------------- actions

\* model = NeuralNetwork(layer_neuron_counts, activation_func, loss_func)
Construct ==
    /\ ~Built
    /\ tr.pc = "idle"
    /\ \E c \in ConfigInputs, seed \in Seeds :
         LET r == NeuralNetworkInit(c.counts, c.act, c.loss, seed) IN
         /\ net' = r.net
         /\ ret' = Ret("construct", r.status, c, <<>>)
    /\ UNCHANGED <<gradient, steps, fs, saved, tr>>

\* model.predict(inputs)
Predict ==
    /\ Built
    /\ tr.pc = "idle"
    /\ steps < MaxSteps
    /\ \E inputs \in InputVectors :
         LET r == PredictRun(net, inputs) IN
         /\ net' = r.net
         /\ ret' = Ret("predict", r.status, inputs, r.val)
    /\ steps' = steps + 1
    /\ UNCHANGED <<gradient, fs, saved, tr>>

\* model.current_cost(targets)
CurrentCost ==
    /\ Built
    /\ tr.pc = "idle"
    /\ steps < MaxSteps
    /\ \E targets \in TargetVectors :
         LET r == CurrentCostRun(net, targets) IN
         ret' = Ret("current_cost", r.status, targets, r.val)
    /\ steps' = steps + 1
    /\ UNCHANGED <<net, gradient, fs, saved, tr>>

\* gradient = model.backprop(targets); when backprop raises, the caller keeps
\* its old list, whose arrays are no longer the buffers backprop replaced.
Backprop ==
    /\ Built
    /\ tr.pc = "idle"
    /\ steps < MaxSteps
    /\ \E targets \in TargetVectors :
         LET r == BackpropRun(net, targets) IN
         /\ net' = r.net
         /\ gradient' = IF r.status = "ok" THEN r.gradient
                        ELSE [i \in 1..Len(gradient) |->
                                [gradient[i] EXCEPT
                                    !.w_alias = @ /\ (i + 1) \notin r.wNew,
                                    !.b_alias = @ /\ (i + 1) \notin r.zNew]]
         /\ ret' = Ret("backprop", r.status, targets, <<>>)
    /\ steps' = steps + 1
    /\ UNCHANGED <<fs, saved, tr>>

\* model.update_weights(gradient, learning_rate), with the list the caller
\* holds or with a list of its own making
UpdateWeights ==
    /\ Built
    /\ tr.pc = "idle"
    /\ steps < MaxSteps
    /\ \E g \in {gradient, FreshGradient(net)}, learning_rate \in LearningRates :
         LET r == UpdateWeightsRun(net, g, learning_rate) IN
         /\ net' = r.net
         /\ gradient' = r.gradient
         /\ ret' = Ret("update_weights", r.status, <<learning_rate>>, <<>>)
    /\ steps' = steps + 1
    /\ UNCHANGED <<fs, saved, tr>>

\* model.layers[li].neurons[0].weights = value (and .bias, .activation)
SetNeuron ==
    /\ Built
    /\ tr.pc = "idle"
    /\ steps < MaxSteps
    /\ \E li \in {1, Len(net.layers)} :
         \/ LET r == SetWeightsRun(net, li, 1, <<5, 5>>) IN
              /\ net' = r.net
              /\ ret' = Ret("set_weights", r.status, <<li>>, <<5, 5>>)
         \/ LET r == SetBiasRun(net, li, 1, 5) IN
              /\ net' = r.net
              /\ ret' = Ret("set_bias", r.status, <<li>>, <<5>>)
         \/ LET r == SetActivationRun(net, li, 1, 5) IN
              /\ net' = r.net
              /\ ret' = Ret("set_activation", r.status, <<li>>, <<5>>)
    /\ steps' = steps + 1
    /\ UNCHANGED <<gradient, fs, saved, tr>>

Next == Construct \/ Predict \/ CurrentCost \/ Backprop \/ UpdateWeights \/ SetNeuron

Spec == Init /\ [][Next]_vars

\* ------------------------------------------------------------ persistence

\* Files some other program (or a hand) put at a path, in load's format: blocks
\* separated by a blank line, lines of comma-separated tokens.
RenderLine(line) == Join(line, <<Comma>>)

RenderBlock(block) == Join([i \in 1..Len(block) |-> RenderLine(block[i])], <<NL>>)

RenderDoc(doc) == Join([i \in 1..Len(doc) |-> RenderBlock(doc[i])], <<NL, NL>>)

HeaderBlock(counts, acts, loss) ==
    <<[i \in 1..Len(counts) |-> IntStr(counts[i])],
      [i \in 1..Len(acts) |-> <<acts[i]>>],
      << <<loss>> >> >>

LayerBlock(biases, rows) ==
    << [i \in 1..Len(biases) |-> FloatStr(biases[i])] >>
    \o [r \in 1..Len(rows) |-> [c \in 1..Len(rows[r]) |-> FloatStr(rows[r][c])]]

GoodHeader == HeaderBlock(<<2, 2>>, <<"ReLU">>, "MeanSquareError")

GoodRows == << <<10, -15>>, <<0, 20>> >>

GoodLayer == LayerBlock(<<5, -5>>, GoodRows)

\* A well-formed file of a network of sizes [2, 2], and files malformed in one
\* way each.
DocInputs ==
    {<<GoodHeader, GoodLayer>>,
     \* two header lines, four header lines
     <<SubSeq(GoodHeader, 1, 2), GoodLayer>>,
     <<GoodHeader \o << << <<"MeanSquareError">> >> >>, GoodLayer>>,
     \* an activation name that is no class; one that is a class of the module
     \* but no activation; a loss name that is no class
     <<HeaderBlock(<<2, 2>>, <<"Tanh">>, "MeanSquareError"), GoodLayer>>,
     <<HeaderBlock(<<2, 2>>, <<"Layer">>, "MeanSquareError"), GoodLayer>>,
     <<HeaderBlock(<<2, 2>>, <<"ReLU">>, "Huber"), GoodLayer>>,
     \* a weight row of one value, of three values
     <<GoodHeader, LayerBlock(<<5, -5>>, << <<10>>, <<0, 20>> >>)>>,
     <<GoodHeader, LayerBlock(<<5, -5>>, << <<10, -15, 5>>, <<0, 20>> >>)>>,
     \* one weight row, three weight rows
     <<GoodHeader, LayerBlock(<<5, -5>>, << <<10, -15>> >>)>>,
     <<GoodHeader, LayerBlock(<<5, -5>>, GoodRows \o << <<5, 5>> >>)>>,
     \* no layer block, two layer blocks
     <<GoodHeader>>,
     <<GoodHeader, GoodLayer, GoodLayer>>,
     \* a bias line of one value, of three values
     <<GoodHeader, LayerBlock(<<5>>, GoodRows)>>,
     <<GoodHeader, LayerBlock(<<5, -5, 5>>, GoodRows)>>}

FileInputs == {RenderDoc(d) : d \in DocInputs}

\* model.save(path)
Save ==
    /\ Built
    /\ tr.pc = "idle"
    /\ steps < MaxSteps
    /\ \E path \in Paths :
         /\ fs' = [fs EXCEPT ![path] = FileOf(SaveText(net))]
         /\ saved' = [saved EXCEPT ![path] = [valid |-> TRUE, net |-> net]]
         /\ ret' = [Ret("save", "ok", <<>>, <<>>) EXCEPT !.path = path]
    /\ steps' = steps + 1
    /\ UNCHANGED <<net, gradient, tr>>

\* model = NeuralNetwork.load(path); when load returns None or raises, the
\* program keeps the model it has.  A loaded network is a new object: the
\* gradient list the caller holds is none of its buffers.
Load ==
    /\ tr.pc = "idle"
    /\ steps < MaxSteps
    /\ \E path \in Paths, seed \in Seeds :
         \E r \in {LoadRun(fs[path], seed)} :
         LET fresh == r.status = "ok" /\ ~r.none
         IN  /\ net' = IF fresh THEN r.net ELSE net
             /\ gradient' = IF fresh
                            THEN [i \in 1..Len(gradient) |->
                                    [gradient[i] EXCEPT !.w_alias = FALSE, !.b_alias = FALSE]]
                            ELSE gradient
             /\ ret' = [Ret("load", r.status, <<>>, <<>>) EXCEPT !.path = path, !.none = r.none]
    /\ steps' = steps + 1
    /\ UNCHANGED <<fs, saved, tr>>

\* Another program writes a file at a path.
WriteFile ==
    /\ tr.pc = "idle"
    /\ steps < MaxSteps
    /\ \E path \in Paths, text \in FileInputs :
         /\ fs' = [fs EXCEPT ![path] = FileOf(text)]
         /\ saved' = [saved EXCEPT ![path] = [valid |-> FALSE, net |-> NoNetwork]]
         /\ ret' = [Ret("write_file", "ok", <<>>, <<>>) EXCEPT !.path = path]
    /\ steps' = steps + 1
    /\ UNCHANGED <<net, gradient, tr>>

NextPersist == Construct \/ UpdateWeights \/ Save \/ Load \/ WriteFile

SpecPersist == Init /\ [][NextPersist]_vars

\* ------------------------------------------------------------------ train

\* validation_split is counted in hundredths
Percent == 100

\* random.shuffle(data): any order of the same elements
Shuffles(data) ==
    {[i \in 1..Len(data) |-> data[p[i]]] :
        p \in {q \in [1..Len(data) -> 1..Len(data)] :
                 \A i, j \in 1..Len(data) : q[i] = q[j] => i = j}}

\* The (validation_split, n), n up to 12, for which the double
\* (1 - validation_split) * n lies just below the whole number the exact
\* product is: (1 - 0.8) * 5 = 0.9999999999999998.
FloatShortfalls == {<<80, 5>>, <<80, 10>>, <<90, 10>>}

\* split_index = len(dataset) if validation_split == 0
\*               else int((1 - validation_split) * len(dataset))
SplitIndex(validation_split, n) ==
    IF validation_split = 0 THEN n
    ELSE ((Percent - validation_split) * n) \div Percent
         - (IF <<validation_split, n>> \in FloatShortfalls THEN 1 ELSE 0)

\* np.sqrt on the grid: the nearest integer to the root of x, sought in lo..hi
RECURSIVE SqrtIn(_, _, _)
SqrtIn(x, lo, hi) ==
    IF lo >= hi THEN (IF x > lo * lo + lo THEN lo + 1 ELSE lo)
    ELSE LET mid == (lo + hi + 1) \div 2 IN
         IF mid * mid <= x THEN SqrtIn(x, mid, hi) ELSE SqrtIn(x, lo, mid - 1)

Sqrt(x) == SqrtIn(x, 0, Min(x, 46340))

\* Adam's moments.  A first moment m is counted in thousandths and a second
\* moment v in hundred-thousandths, so that for a gradient g in tenths
\* beta1 * m + (1 - beta1) * g and beta2 * v + (1 - beta2) * g ** 2 are
\* whole numbers up to the rounding of the products by beta.
AdamM(m, g) == RoundDiv(9 * m + 100 * g, 10)

AdamV(v, g) == RoundDiv(999 * v, 1000) + g * g

\* beta1 ** t in thousandths, beta2 ** t in millionths
RECURSIVE Beta1Pow(_)
Beta1Pow(t) == IF t = 0 THEN 1000 ELSE RoundDiv(9 * Beta1Pow(t - 1), 10)

RECURSIVE Beta2Pow(_)
Beta2Pow(t) == IF t = 0 THEN 1000000 ELSE RoundDiv(999 * Beta2Pow(t - 1), 1000)

\* learning_rate * m_hat / (np.sqrt(v_hat) + epsilon) in tenths, with
\* m_hat = m / (1 - beta1 ** t) and v_hat = v / (1 - beta2 ** t); epsilon is
\* far below the grid and decides only 0 / (0 + epsilon) = 0.
AdamUpdate(m, v, t, learning_rate) ==
    LET m_hat == RoundDiv(10 * m, 1000 - Beta1Pow(t))
        v_hat == RoundDiv(1000 * v, 1000000 - Beta2Pow(t))
    IN  IF m_hat = 0 THEN 0
        ELSE RoundDiv(learning_rate * m_hat, Max(Sqrt(v_hat), 1))

\* m_t and v_t as train creates them: zeros_like the weights and the biases
\* of every layer but the input layer
ZeroMoments(network) ==
    [i \in 1..(Len(network.layers) - 1) |->
        [w |-> [r \in 1..Len(network.layers[i + 1].weights.val) |->
                  Zeros(Len(network.layers[i + 1].weights.val[r]))],
         b |-> Zeros(Len(network.layers[i + 1].biases.val))]]

\* Mutant of TrainExamples: an example predict refuses is skipped when the
\* batch already has a gradient.
RECURSIVE TrainExamplesSkipping(_, _, _, _)
TrainExamplesSkipping(network, batch, k, acc) ==
    IF k > Len(batch) THEN [acc EXCEPT !.net = network]
    ELSE Only({
        IF p.status # "ok" /\ acc.gradient_sum.some
        THEN TrainExamplesSkipping(p.net, batch, k + 1, acc)
        ELSE IF p.status # "ok" THEN [acc EXCEPT !.status = p.status, !.net = p.net]
        ELSE Only({
            IF c.status # "ok" THEN [acc EXCEPT !.status = c.status, !.net = p.net]
            ELSE Only({
                IF g.status # "ok"
                THEN [acc EXCEPT !.status = g.status, !.net = g.net,
                                 !.cost_sum = @ + c.val[1],
                                 !.zNew = @ \cup g.zNew, !.wNew = @ \cup g.wNew]
                ELSE Only({ TrainExamplesSkipping(g.net, batch, k + 1, next) : next \in {
                    [acc EXCEPT
                        !.cost_sum = @ + c.val[1],
                        !.count = @ + 1,
                        !.zNew = @ \cup g.zNew,
                        !.wNew = @ \cup g.wNew,
                        !.gradient_sum =
                            IF @.some
                            THEN Some([i \in 1..Len(g.gradient) |->
                                    [w |-> [r \in 1..Len(g.gradient[i].w) |->
                                              [q \in 1..Len(g.gradient[i].w[r]) |->
                                                 @.val[i].w[r][q] + g.gradient[i].w[r][q]]],
                                     b |-> [r \in 1..Len(g.gradient[i].b) |->
                                              @.val[i].b[r] + g.gradient[i].b[r]]]])
                            ELSE Some([i \in 1..Len(g.gradient) |->
                                    [w |-> g.gradient[i].w, b |-> g.gradient[i].b]])]} })
                : g \in {BackpropRun(p.net, batch[k].targets)} })
            : c \in {CurrentCostRun(p.net, batch[k].targets)} })
        : p \in {PredictRun(network, batch[k].inputs)} })

\* The examples of one mini-batch from example k on: predict, current_cost
\* and backprop on each, the gradients summed into gradient_sum (None before
\* the first example).  A call that raises ends the run with the network as
\* that call left it.  zNew and wNew are the layers whose z_grad and w_grad
\* buffers the run replaced by new arrays.
RECURSIVE TrainExamples(_, _, _, _)
TrainExamples(network, batch, k, acc) ==
    IF k > Len(batch) THEN [acc EXCEPT !.net = network]
    ELSE Only({
        IF p.status # "ok" THEN [acc EXCEPT !.status = p.status, !.net = p.net]
        ELSE Only({
            IF c.status # "ok" THEN [acc EXCEPT !.status = c.status, !.net = p.net]
            ELSE Only({
                IF g.status # "ok"
                THEN [acc EXCEPT !.status = g.status, !.net = g.net,
                                 !.cost_sum = @ + c.val[1],
                                 !.zNew = @ \cup g.zNew, !.wNew = @ \cup g.wNew]
                ELSE Only({ TrainExamples(g.net, batch, k + 1, next) : next \in {
                    [acc EXCEPT
                        !.cost_sum = @ + c.val[1],
                        !.count = @ + 1,
                        !.zNew = @ \cup g.zNew,
                        !.wNew = @ \cup g.wNew,
                        !.gradient_sum =
                            IF @.some
                            THEN Some([i \in 1..Len(g.gradient) |->
                                    [w |-> [r \in 1..Len(g.gradient[i].w) |->
                                              [q \in 1..Len(g.gradient[i].w[r]) |->
                                                 @.val[i].w[r][q] + g.gradient[i].w[r][q]]],
                                     b |-> [r \in 1..Len(g.gradient[i].b) |->
                                              @.val[i].b[r] + g.gradient[i].b[r]]]])
                            ELSE Some([i \in 1..Len(g.gradient) |->
                                    [w |-> g.gradient[i].w, b |-> g.gradient[i].b]])]} })
                : g \in {BackpropRun(p.net, batch[k].targets)} })
            : c \in {CurrentCostRun(p.net, batch[k].targets)} })
        : p \in {PredictRun(network, batch[k].inputs)} })

\* Mutant of AverageGradient: the sum is not divided.
AverageGradientSum(gradient_sum, n) == gradient_sum

\* gradient_sum[i] /= len(batch)
AverageGradient(gradient_sum, n) ==
    [i \in 1..Len(gradient_sum) |->
        [w |-> [r \in 1..Len(gradient_sum[i].w) |->
                  [q \in 1..Len(gradient_sum[i].w[r]) |-> RoundDiv(gradient_sum[i].w[r][q], n)]],
         b |-> [r \in 1..Len(gradient_sum[i].b) |-> RoundDiv(gradient_sum[i].b[r], n)]]]

\* The Adam step of one mini-batch on the averaged gradient g (t already
\* incremented): the new moments and the layers with the updates subtracted.
AdamStep(layers, m_t, v_t, t, g, learning_rate) ==
    Only({ Only({
        [m_t |-> m, v_t |-> v,
         layers |-> [k \in 1..Len(layers) |->
            IF k = 1 THEN layers[1]
            ELSE [layers[k] EXCEPT
                    !.weights = Some([r \in 1..Len(@.val) |-> [q \in 1..Len(@.val[r]) |->
                        @.val[r][q] - AdamUpdate(m[k - 1].w[r][q], v[k - 1].w[r][q],
                                                 t, learning_rate)]]),
                    !.biases = Some([r \in 1..Len(@.val) |->
                        @.val[r] - AdamUpdate(m[k - 1].b[r], v[k - 1].b[r],
                                              t, learning_rate)])]]]
        : v \in {[i \in 1..Len(g) |->
                   [w |-> [r \in 1..Len(g[i].w) |-> [q \in 1..Len(g[i].w[r]) |->
                             AdamV(v_t[i].w[r][q], g[i].w[r][q])]],
                    b |-> [r \in 1..Len(g[i].b) |-> AdamV(v_t[i].b[r], g[i].b[r])]]]} })
        : m \in {[i \in 1..Len(g) |->
                   [w |-> [r \in 1..Len(g[i].w) |-> [q \in 1..Len(g[i].w[r]) |->
                             AdamM(m_t[i].w[r][q], g[i].w[r][q])]],
                    b |-> [r \in 1..Len(g[i].b) |-> AdamM(m_t[i].b[r], g[i].b[r])]]]} })

\* Mutant of ValidateExamples: backprop runs on each validation example too.
RECURSIVE ValidateExamplesBackprop(_, _, _, _, _)
ValidateExamplesBackprop(network, validation_data, k, val_cost_sum, val_count) ==
    IF k > Len(validation_data)
    THEN [status |-> "ok", net |-> network, val_cost_sum |-> val_cost_sum,
          val_count |-> val_count]
    ELSE Only({
        IF p.status # "ok"
        THEN [status |-> p.status, net |-> p.net, val_cost_sum |-> val_cost_sum,
              val_count |-> val_count]
        ELSE Only({
            IF c.status # "ok"
            THEN [status |-> c.status, net |-> p.net, val_cost_sum |-> val_cost_sum,
                  val_count |-> val_count]
            ELSE ValidateExamplesBackprop(
                    BackpropRun(p.net, validation_data[k].targets).net,
                    validation_data, k + 1, val_cost_sum + c.val[1], val_count + 1)
            : c \in {CurrentCostRun(p.net, validation_data[k].targets)} })
        : p \in {PredictRun(network, validation_data[k].inputs)} })

\* The validation pass from example k on: predict and current_cost on each
RECURSIVE ValidateExamples(_, _, _, _, _)
ValidateExamples(network, validation_data, k, val_cost_sum, val_count) ==
    IF k > Len(validation_data)
    THEN [status |-> "ok", net |-> network, val_cost_sum |-> val_cost_sum,
          val_count |-> val_count]
    ELSE Only({
        IF p.status # "ok"
        THEN [status |-> p.status, net |-> p.net, val_cost_sum |-> val_cost_sum,
              val_count |-> val_count]
        ELSE Only({
            IF c.status # "ok"
            THEN [status |-> c.status, net |-> p.net, val_cost_sum |-> val_cost_sum,
                  val_count |-> val_count]
            ELSE ValidateExamples(p.net, validation_data, k + 1,
                                  val_cost_sum + c.val[1], val_count + 1)
            : c \in {CurrentCostRun(p.net, validation_data[k].targets)} })
        : p \in {PredictRun(network, validation_data[k].inputs)} })

\* The examples train is called with: two of a network of two inputs and one
\* output, one of a network of one input and two outputs.
Example(inputs, targets) == [inputs |-> inputs, targets |-> targets]

ExampleA == Example(<<Scale, -Scale>>, <<Scale>>)

ExampleB == Example(<<0, 2 * Scale>>, <<0>>)

ExampleC == Example(<<Scale>>, <<0, Scale>>)

\* train's arguments: the dataset (a list), epochs, batch_size and
\* validation_split (in hundredths)
TrainArgs(dataset, epochs, batch_size, validation_split) ==
    [dataset |-> dataset, is_list |-> TRUE, epochs |-> epochs, batch_size |-> batch_size,
     validation_split |-> validation_split]

\* the same with the dataset handed over as an iterator (the parameter is an
\* Iterable): "not dataset" is False for it whatever it yields
TrainArgsIterator(dataset, epochs, batch_size, validation_split) ==
    [TrainArgs(dataset, epochs, batch_size, validation_split) EXCEPT !.is_list = FALSE]

TrainInputs ==
    {TrainArgs(<<>>, 1, -1, 15),
     TrainArgs(<<ExampleA, ExampleB>>, 1, -1, Percent),
     TrainArgs(<<ExampleA, ExampleB>>, 1, -1, -10),
     TrainArgs(<<ExampleA>>, 0, -1, 15),
     TrainArgs(<<ExampleA>>, 1, -1, 15),
     TrainArgs(<<ExampleA>>, 1, 1, 15),
     TrainArgs(<<ExampleA>>, 2, -1, 0),
     TrainArgs(<<ExampleC>>, 1, -1, 0),
     TrainArgs(<<ExampleA, ExampleB>>, 2, -1, 0),
     TrainArgs(<<ExampleA, ExampleB>>, 1, 1, 50),
     TrainArgs(<<ExampleA, ExampleB, ExampleA>>, 1, 2, 0),
     TrainArgs(<<ExampleA, ExampleB, ExampleA, ExampleB>>, 1, 2, 25),
     TrainArgs(<<ExampleA, ExampleC>>, 1, 1, 0),
     TrainArgs(<<ExampleA, ExampleC>>, 1, -1, 0),
     TrainArgs(<<ExampleA, ExampleC>>, 1, 1, 50),
     TrainArgs(<<ExampleA, ExampleA, ExampleA, ExampleA, ExampleB>>, 1, -1, 80),
     TrainArgsIterator(<<>>, 0, -1, 0),
     TrainArgsIterator(<<>>, 1, -1, 0),
     TrainArgsIterator(<<>>, 1, 1, 15),
     TrainArgsIterator(<<ExampleA, ExampleB>>, 1, -1, 0)}

\* if batch_size <= 0: batch_size = len(training_data)
BatchSize(batch_size, training_data) ==
    IF batch_size <= 0 THEN Len(training_data) ELSE batch_size

\* the train call ends: its locals are gone, the caller sees the outcome and
\* how many epochs ran to their end
TrainReturns(status) ==
    /\ tr' = NoTrain
    /\ ret' = Ret("train", status, tr.args, <<tr.epoch>>)

\* model.train(dataset, epochs, batch_size, learning_rate, True,
\* validation_split) up to the first epoch: the argument checks, Adam's state,
\* the shuffle and the split
TrainStart ==
    /\ Built
    /\ tr.pc = "idle"
    /\ steps < MaxTrains
    /\ \E a \in TrainInputs, learning_rate \in LearningRates :
         IF \/ a.is_list /\ a.dataset = <<>>
            \/ ~(0 <= a.validation_split /\ a.validation_split < Percent)
         THEN /\ tr' = NoTrain
              /\ ret' = Ret("train", "ValueError", a, <<0>>)
         ELSE \E dataset \in Shuffles(a.dataset) :
              LET split_index == SplitIndex(a.validation_split, Len(dataset))
                  training_data == SubSeq(dataset, 1, split_index)
              IN  /\ tr' = [pc |-> "epoch",
                            args |-> a,
                            training_data |-> training_data,
                            validation_data |-> SubSeq(dataset, split_index + 1, Len(dataset)),
                            epochs |-> a.epochs,
                            batch_size |-> BatchSize(a.batch_size, training_data),
                            learning_rate |-> learning_rate,
                            validation_split |-> a.validation_split,
                            m_t |-> ZeroMoments(net),
                            v_t |-> ZeroMoments(net),
                            t |-> 0,
                            epoch |-> 0,
                            batch_start |-> 0,
                            cost_sum |-> 0,
                            count |-> 0,
                            seen |-> <<>>]
                  /\ ret' = Ret("train", "running", a, <<0>>)
    /\ steps' = steps + 1
    /\ UNCHANGED <<net, gradient, fs, saved>>

\* The head of "for epoch in range(epochs)": train returns after the last
\* epoch; otherwise the training data is shuffled and the loop over
\* range(0, len(training_data), batch_size) begins, which raises ValueError
\* for a step of 0.
TrainEpoch ==
    /\ tr.pc = "epoch"
    /\ \/ /\ tr.epoch >= tr.epochs
          /\ TrainReturns("ok")
       \/ /\ tr.epoch < tr.epochs
          /\ tr.batch_size = 0
          /\ TrainReturns("ValueError")
       \/ /\ tr.epoch < tr.epochs
          /\ tr.batch_size # 0
          /\ \E training_data \in Shuffles(tr.training_data) :
               tr' = [tr EXCEPT !.pc = "batch", !.training_data = training_data,
                                !.cost_sum = 0, !.count = 0, !.batch_start = 0,
                                !.seen = <<>>]
          /\ ret' = ret
    /\ UNCHANGED <<net, gradient, steps, fs, saved>>

\* the caller's gradient list after a run replaced the buffers zNew and wNew
Unalias(grad, zNew, wNew) ==
    [i \in 1..Len(grad) |->
        [grad[i] EXCEPT !.w_alias = @ /\ (i + 1) \notin wNew,
                        !.b_alias = @ /\ (i + 1) \notin zNew]]

\* Mutant of BatchAt: the slice takes one example more.
BatchAtOneMore(training_data, batch_start, batch_size) ==
    SubSeq(training_data, batch_start + 1,
           Min(batch_start + batch_size + 1, Len(training_data)))

\* batch = training_data[batch_start:batch_start + batch_size]
BatchAt(training_data, batch_start, batch_size) ==
    SubSeq(training_data, batch_start + 1,
           Min(batch_start + batch_size, Len(training_data)))

\* One mini-batch: its examples, the average of their gradients, and Adam's
\* update of the moments, the weights and the biases.  An example that raises
\* ends train with what was assigned before.
TrainBatch ==
    /\ tr.pc = "batch"
    /\ tr.batch_start < Len(tr.training_data)
    /\ \E batch \in {BatchAt(tr.training_data, tr.batch_start, tr.batch_size)} :
       \E r \in {TrainExamples(net, batch, 1,
                    [status |-> "ok", net |-> net, cost_sum |-> tr.cost_sum,
                     count |-> tr.count, gradient_sum |-> None,
                     zNew |-> {}, wNew |-> {}])} :
         /\ gradient' = Unalias(gradient, r.zNew, r.wNew)
         /\ \/ /\ r.status # "ok"
               /\ net' = r.net
               /\ TrainReturns(r.status)
            \/ /\ r.status = "ok"
               /\ \E u \in {AdamStep(r.net.layers, tr.m_t, tr.v_t, tr.t + 1,
                                     AverageGradient(r.gradient_sum.val, Len(batch)),
                                     tr.learning_rate)} :
                    /\ net' = [r.net EXCEPT !.layers = u.layers]
                    /\ tr' = [tr EXCEPT !.m_t = u.m_t, !.v_t = u.v_t, !.t = @ + 1,
                                        !.cost_sum = r.cost_sum, !.count = r.count,
                                        !.batch_start = @ + tr.batch_size,
                                        !.seen = @ \o batch]
               /\ ret' = ret
    /\ UNCHANGED <<steps, fs, saved>>

\* Mutant of CostAvg: the sum is not divided by the count.
CostAvgOfSum(cost_sum, count) == cost_sum

\* cost_avg = round(cost_sum / count * 1e6) / 1e6
CostAvg(cost_sum, count) == RoundDiv(cost_sum, count)

\* The end of an epoch: the average cost is stored (ZeroDivisionError when no
\* example was counted), the validation pass runs when validation_split is
\* not 0 (ZeroDivisionError when the validation set is empty), and the next
\* epoch is due.
TrainEpochEnd ==
    /\ tr.pc = "batch"
    /\ tr.batch_start >= Len(tr.training_data)
    /\ \/ /\ tr.count = 0
          /\ net' = net
          /\ TrainReturns("ZeroDivisionError")
       \/ /\ tr.count # 0
          /\ tr.validation_split = 0
          /\ net' = [net EXCEPT !.cost = CostAvg(tr.cost_sum, tr.count)]
          /\ tr' = [tr EXCEPT !.pc = "epoch", !.epoch = @ + 1]
          /\ ret' = ret
       \/ /\ tr.count # 0
          /\ tr.validation_split # 0
          /\ \E r \in {ValidateExamples(
                          [net EXCEPT !.cost = CostAvg(tr.cost_sum, tr.count)],
                          tr.validation_data, 1, 0, 0)} :
               /\ net' = r.net
               /\ IF r.status # "ok" THEN TrainReturns(r.status)
                  ELSE IF r.val_count = 0 THEN TrainReturns("ZeroDivisionError")
                  ELSE /\ tr' = [tr EXCEPT !.pc = "epoch", !.epoch = @ + 1]
                       /\ ret' = ret
    /\ UNCHANGED <<gradient, steps, fs, saved>>

NextTrain == Construct \/ TrainStart \/ TrainEpoch \/ TrainBatch \/ TrainEpochEnd

SpecTrain == Init /\ [][NextTrain]_vars

\* A program that trains its network and calls it before and after
NextCost ==
    \/ Construct
    \/ TrainStart
    \/ TrainEpoch
    \/ TrainBatch
    \/ TrainEpochEnd
    \/ Predict
    \/ CurrentCost
    \/ Backprop
    \/ UpdateWeights
    \/ Save

SpecCost == Init /\ [][NextCost]_vars

\* A program that trains its network, saves it and loads it again
NextReload ==
    \/ Construct
    \/ TrainStart
    \/ TrainEpoch
    \/ TrainBatch
    \/ TrainEpochEnd
    \/ Save
    \/ Load

SpecReload == Init /\ [][NextReload]_vars

\* weights = activation_func.init_weights(input_size, output_size), called by
\* the program itself
InitWeightsCall ==
    /\ tr.pc = "idle"
    /\ \E name \in ActivationNames, input_size \in 1..MaxSize, output_size \in 1..MaxSize,
          seed \in Seeds :
         ret' = Ret("init_weights", "ok",
                    [name |-> name, input_size |-> input_size, output_size |-> output_size],
                    InitWeights(name, input_size, output_size, seed))
    /\ UNCHANGED <<net, gradient, steps, fs, saved, tr>>

\* A program that builds networks and weight matrices
NextInit == Construct \/ InitWeightsCall

SpecInit == Init /\ [][NextInit]_vars

\* ----------------------------------------------------------------- claims

OutputLayer(network) == network.layers[Len(network.layers)]

\* C1: after a successful predict(x) the input layer's activations are x,
\* every other layer i holds z_i = W_i * a_(i-1) + b_i and a_i = activation_i(z_i)
\* for the activations a_(i-1) the layer below holds now, and the returned
\* vector is the output layer's activations.
C1_PredictForward ==
    (ret.op = "predict" /\ ret.status = "ok") =>
        /\ net.layers[1].activations = ret.arg
        /\ \A i \in 2..Len(net.layers) :
             LET layer == net.layers[i]
                 below == net.layers[i - 1].activations
             IN  /\ Len(layer.z) = layer.neuron_count
                 /\ \A r \in 1..layer.neuron_count :
                      layer.z[r] = SumSeq([c \in 1..Len(below) |->
                                             Mul(layer.weights.val[r][c], below[c])])
                                   + layer.biases.val[r]
                 /\ layer.activations = Activate(layer.activation_func, layer.z)
        /\ ret.val = OutputLayer(net).activations

\* C1 witness: a successful predict on a network of three layers whose output
\* is not all zero
C1_Witness ==
    /\ ret.op = "predict"
    /\ ret.status = "ok"
    /\ Len(net.layers) = 3
    /\ \E r \in 1..Len(ret.val) : ret.val[r] # 0
    /\ \E r \in 1..Len(net.layers[2].z) : net.layers[2].z[r] # 0

\* C2: a predict whose input vector has another length than the input layer's
\* neuron count fails with the shape-mismatch error (ValueError) and leaves the
\* network (activations, pre-activations, weights, biases, gradients) as it was.
C2_PredictShapeMismatch ==
    [][(ret'.op = "predict" /\ Len(ret'.arg) # net.layers[1].neuron_count) =>
          (ret'.status = "ValueError" /\ net' = net /\ gradient' = gradient)]_vars

\* C2 witness: a failed predict of a wrong-length input on a network that
\* holds the activations of an earlier predict
C2_Witness ==
    /\ ret.op = "predict"
    /\ ret.status = "ValueError"
    /\ Len(ret.arg) # net.layers[1].neuron_count
    /\ \E r \in 1..Len(net.layers[1].activations) : net.layers[1].activations[r] # 0

\* C3: a backprop whose target vector has another length than the output
\* layer's neuron count fails with the shape-mismatch error.
C3_BackpropShapeMismatch ==
    (ret.op = "backprop" /\ Len(ret.arg) # OutputLayer(net).neuron_count) =>
        ret.status = "ValueError"

\* C4: a current_cost whose target vector has another length than the output
\* layer's neuron count fails with the shape-mismatch error (ValueError) and
\* changes no network state.
C4_CurrentCostShapeMismatch ==
    [][(ret'.op = "current_cost" /\ Len(ret'.arg) # OutputLayer(net).neuron_count) =>
          (ret'.status = "ValueError" /\ net' = net /\ gradient' = gradient)]_vars

\* C4 witness: a failed current_cost of a wrong-length target after a predict
C4_Witness ==
    /\ ret.op = "current_cost"
    /\ ret.status = "ValueError"
    /\ Len(ret.arg) # OutputLayer(net).neuron_count
    /\ \E r \in 1..Len(net.layers[1].activations) : net.layers[1].activations[r] # 0

\* The shapes Layer.__init__ gives a network's arrays
ShapesOf(network) ==
    /\ network.layers[1].weights = None
    /\ network.layers[1].biases = None
    /\ \A i \in 2..Len(network.layers) :
         LET layer == network.layers[i] IN
         /\ layer.weights.some
         /\ Len(layer.weights.val) = layer.neuron_count
         /\ \A r \in 1..Len(layer.weights.val) :
              Len(layer.weights.val[r]) = network.layers[i - 1].neuron_count
         /\ layer.biases.some
         /\ Len(layer.biases.val) = layer.neuron_count

\* C5: in every reachable state of a network, built by the constructor or
\* returned by load, the input layer owns no weights and no biases and every
\* other layer i owns a weight matrix of shape (neuron_count_i,
\* neuron_count_(i-1)) and a bias vector of length neuron_count_i.
C5_LayerShapes == Built => ShapesOf(net)

\* The save file's parts: its blocks, each a sequence of lines, each a
\* sequence of comma-separated tokens
DocOf(text) ==
    Only({ [b \in 1..Len(blocks) |->
              Only({ [l \in 1..Len(lines) |-> Split(lines[l], <<Comma>>)]
                     : lines \in {Split(blocks[b], <<NL>>)} })]
           : blocks \in {Split(text, <<NL, NL>>)} })

\* a save file with a header of another number of lines than three
WrongHeaderLines(doc) == Len(doc[1]) # 3

\* a save file whose activation line names something that is no activation
UnknownActivation(doc) ==
    /\ Len(doc[1]) >= 2
    /\ \E i \in 1..Len(doc[1][2]) :
         ~(Len(doc[1][2][i]) = 1 /\ doc[1][2][i][1] \in ActivationNames)

\* a save file whose loss line names something that is no loss
UnknownLoss(doc) ==
    /\ Len(doc[1]) >= 3
    /\ ~(Len(doc[1][3]) = 1 /\ Len(doc[1][3][1]) = 1 /\ doc[1][3][1][1] \in LossNames)

\* a save file with another number of layer blocks than non-input layers, a
\* block with another number of weight rows than its layer has neurons, or a
\* weight row of another length than the layer below has neurons
WrongRows(doc) ==
    LET counts == ParseInts(Join(doc[1][1], <<Comma>>)) IN
    /\ counts.ok
    /\ \/ Len(doc) - 1 # Len(counts.v) - 1
       \/ \E b \in 2..Len(doc) :
            /\ b <= Len(counts.v)
            /\ \/ Len(doc[b]) - 1 # counts.v[b]
               \/ \E l \in 2..Len(doc[b]) : Len(doc[b][l]) # counts.v[b - 1]

Malformed(doc) ==
    WrongHeaderLines(doc) \/ UnknownActivation(doc) \/ UnknownLoss(doc) \/ WrongRows(doc)

\* the networks agree in what save writes: neuron counts, activation names of
\* the non-input layers, loss name, weights and biases
SameModel(a, b) ==
    /\ Len(a.layers) = Len(b.layers)
    /\ a.loss_func = b.loss_func
    /\ \A i \in 1..Len(a.layers) : a.layers[i].neuron_count = b.layers[i].neuron_count
    /\ \A i \in 2..Len(a.layers) :
         /\ a.layers[i].activation_func = b.layers[i].activation_func
         /\ a.layers[i].weights = b.layers[i].weights
         /\ a.layers[i].biases = b.layers[i].biases

\* C6: load from a path whose file a save wrote returns a network with the
\* saved network's neuron counts, activation names, loss name, weights and
\* biases, and predict on any input gives the same outcome on both.
C6_SaveLoadRoundTrip ==
    (ret.op = "load" /\ saved[ret.path].valid) =>
        /\ ret.status = "ok"
        /\ ~ret.none
        /\ SameModel(net, saved[ret.path].net)
        /\ \A x \in InputVectors :
             LET mine == PredictRun(net, x)
                 theirs == PredictRun(saved[ret.path].net, x)
             IN  mine.status = theirs.status /\ mine.val = theirs.val

\* C6 witness: a network of three layers with a negative bias and a negative
\* weight is loaded from the file its save wrote
C6_Witness ==
    /\ ret.op = "load"
    /\ saved[ret.path].valid
    /\ Len(net.layers) = 3
    /\ \E i \in 2..3 : \E r \in 1..Len(net.layers[i].biases.val) :
         /\ net.layers[i].biases.val[r] < 0
         /\ \E c \in 1..Len(net.layers[i].weights.val[r]) :
              net.layers[i].weights.val[r][c] < 0
    /\ \E x \in InputVectors : \E r \in 1..2 :
         PredictRun(net, x).status = "ok" /\ PredictRun(net, x).val[r] # 0

\* C7: load of a file with a wrong number of header lines, an activation or
\* loss name that is no known strategy, weight rows of the wrong length, or a
\* wrong number of weight rows or layer blocks fails with an error.
C7_MalformedLoadFails ==
    (ret.op = "load" /\ fs[ret.path].exists /\ Malformed(DocOf(fs[ret.path].text))) =>
        ret.status # "ok"

\* C8: load of a file whose activation line holds a name that is no known
\* activation returns None, as for a missing file, and raises nothing.
C8_UnknownActivationNoModel ==
    (ret.op = "load" /\ fs[ret.path].exists /\ UnknownActivation(DocOf(fs[ret.path].text))) =>
        (ret.status = "ok" /\ ret.none)

\* C9: load of a path at which no file exists returns None, raises nothing,
\* and creates or modifies no file.
C9_MissingFileNoModel ==
    [][(ret'.op = "load" /\ ~fs[ret'.path].exists) =>
          (ret'.status = "ok" /\ ret'.none /\ fs' = fs /\ net' = net)]_vars

\* C9 witness: a load of a missing file, by a program that holds a network
C9_Witness ==
    /\ ret.op = "load"
    /\ ~fs[ret.path].exists
    /\ ret.none
    /\ Built

\* every example has the input layer's and the output layer's length
WellShaped(network, dataset) ==
    \A k \in 1..Len(dataset) :
        /\ Len(dataset[k].inputs) = network.layers[1].neuron_count
        /\ Len(dataset[k].targets) = OutputLayer(network).neuron_count

\* C10: a train call with a non-empty dataset, 0 <= validation_split < 1 and
\* epochs >= 0 runs every one of its epochs and then returns normally.  (Stated
\* for datasets of the network's shapes and a loss whose cost a vector has, so
\* that no example raises.)
C10_TrainRunsAllEpochs ==
    (/\ ret.op = "train"
     /\ ret.status # "running"
     /\ ret.arg.dataset # <<>>
     /\ 0 <= ret.arg.validation_split
     /\ ret.arg.validation_split < Percent
     /\ ret.arg.epochs >= 0
     /\ WellShaped(net, ret.arg.dataset)
     /\ net.loss_func # "CategoricalCrossEntropy") =>
        (ret.status = "ok" /\ ret.val = <<ret.arg.epochs>>)

\* the arguments train's checks are meant to refuse
BadTrainArgs(a) ==
    a.dataset = <<>> \/ ~(0 <= a.validation_split /\ a.validation_split < Percent)

\* C11: a train call with an empty dataset, or with validation_split outside
\* [0, 1), ends with the configuration error (ValueError) raised by the call's
\* checks, before any computation: the network and the gradient buffers are
\* as they were.
C11_TrainRejectsBadArguments ==
    [][(ret'.op = "train" /\ ret'.status # "running" /\ BadTrainArgs(ret'.arg)) =>
          (ret'.status = "ValueError" /\ tr.pc = "idle"
           /\ net' = net /\ gradient' = gradient)]_vars

\* C12: while a train call on a non-empty dataset runs, its training set is the first
\* floor((1 - validation_split) * n) examples of the shuffled dataset and its
\* validation set the rest: together they hold every example exactly once,
\* and the validation set is empty exactly when validation_split = 0.
C12_TrainSplit ==
    (tr.pc # "idle" /\ tr.args.dataset # <<>>) =>
        /\ Len(tr.training_data)
             = ((Percent - tr.args.validation_split) * Len(tr.args.dataset)) \div Percent
        /\ (tr.training_data \o tr.validation_data) \in Shuffles(tr.args.dataset)
        /\ (tr.validation_data = <<>>) <=> (tr.args.validation_split = 0)

\* C13: in every epoch the mini-batches are consecutive slices of batch_size
\* examples of the training set (the last one may be shorter): between
\* batches the examples run through predict and backprop in this epoch are
\* the training set up to batch_start, each once, and at the end of the epoch
\* they are the training set, each example once and no other.
C13_ConsecutiveBatches ==
    /\ tr.pc = "batch" =>
         /\ tr.batch_start % tr.batch_size = 0
         /\ tr.seen = SubSeq(tr.training_data, 1,
                             Min(tr.batch_start, Len(tr.training_data)))
         /\ tr.count = Len(tr.seen)
    /\ (tr.pc = "epoch" /\ tr.epoch > 0) => tr.seen = tr.training_data

\* C13 witness: an epoch of three examples in batches of two has ended, with a
\* validation set beside
C13_Witness ==
    /\ tr.pc = "epoch"
    /\ tr.epoch = 1
    /\ tr.batch_size = 2
    /\ Len(tr.training_data) = 3
    /\ tr.seen = tr.training_data
    /\ tr.validation_data # <<>>

\* C14: in a train call with batch_size <= 0 on a non-empty dataset the whole training set is one
\* batch and each epoch performs exactly one update: an epoch that begins
\* goes on to its batch, every Adam update (a step of t) is made after
\* running all training examples, none before it in the epoch, and at every
\* epoch's end t counts one update per epoch.
C14_WholeSetBatch ==
    [][(tr.pc # "idle" /\ tr.args.batch_size <= 0 /\ tr.args.dataset # <<>>) =>
          /\ (tr.pc = "epoch" /\ tr.epoch < tr.epochs) => tr'.pc = "batch"
          /\ (tr'.pc # "idle" /\ tr'.t # tr.t) =>
               /\ tr'.t = tr.t + 1
               /\ tr.seen = <<>>
               /\ tr'.seen = tr.training_data
          /\ (tr.pc = "batch" /\ tr'.pc = "epoch") => tr'.t = tr'.epoch]_vars

C16_ClipThenSubtract ==
    [][(ret'.op = "update_weights" /\ ret'.status = "ok") =>
         \E g \in {gradient, FreshGradient(net)} :
            /\ Len(g) = Len(net.layers) - 1
            /\ gradient' = [i \in 1..Len(g) |->
                              [g[i] EXCEPT
                                 !.w = [r \in 1..Len(g[i].w) |-> [c \in 1..Len(g[i].w[r]) |->
                                          Min(Scale, Max(-Scale, g[i].w[r][c]))]],
                                 !.b = [r \in 1..Len(g[i].b) |->
                                          Min(Scale, Max(-Scale, g[i].b[r]))]]]
            /\ \A i \in 1..Len(g) :
                 LET W  == net.layers[i + 1].weights.val
                     W2 == net'.layers[i + 1].weights.val
                     b  == net.layers[i + 1].biases.val
                     b2 == net'.layers[i + 1].biases.val
                 IN  /\ (Len(g[i].w) = Len(W) /\ \A r \in 1..Len(W) : Len(g[i].w[r]) = Len(W[r])) =>
                          \A r \in 1..Len(W) : \A c \in 1..Len(W[r]) :
                             /\ W2[r][c] = W[r][c] - Mul(gradient'[i].w[r][c], ret'.arg[1])
                             /\ g[i].w[r][c] = 5 * Scale => W2[r][c] = W[r][c] - ret'.arg[1]
                     /\ Len(g[i].b) = Len(b) =>
                          \A r \in 1..Len(b) :
                             /\ b2[r] = b[r] - Mul(gradient'[i].b[r], ret'.arg[1])
                             /\ g[i].b[r] = 5 * Scale => b2[r] = b[r] - ret'.arg[1]]_vars

\* C16 witness: an update_weights of a network of three layers
\* with a gradient list of the caller's own, whose elements 5.0 are now 1.0
C16_Witness ==
    /\ ret.op = "update_weights"
    /\ ret.status = "ok"
    /\ Len(net.layers) = 3
    /\ ~gradient[1].w_alias
    /\ gradient[1].w[1][1] = Scale
    /\ gradient[2].b[1] = Scale

\* C17: the list a backprop returns has one entry per non-input layer, in
\* forward order; entry i is the pair of layer i + 1's w_grad and z_grad
\* arrays themselves (the bias gradient is the z_grad buffer, not a copy), and
\* the weight gradient has the shape of the layer's weights.
C17_BackpropList ==
    [][(ret'.op = "backprop" /\ ret'.status = "ok") =>
         /\ Len(gradient') = Len(net'.layers) - 1
         /\ \A i \in 1..Len(gradient') :
              LET layer == net'.layers[i + 1] IN
              /\ gradient'[i].w_alias /\ gradient'[i].w = layer.w_grad.val
              /\ gradient'[i].b_alias /\ gradient'[i].b = layer.z_grad.val
              /\ Len(gradient'[i].b) = layer.neuron_count
              /\ Len(gradient'[i].w) = Len(layer.weights.val)
              /\ \A r \in 1..Len(layer.weights.val) :
                   Len(gradient'[i].w[r]) = Len(layer.weights.val[r])]_vars

\* C17 witness: a backprop has returned the list of a network of three layers
\* whose two weight matrices differ in shape
C17_Witness ==
    /\ ret.op = "backprop"
    /\ ret.status = "ok"
    /\ Len(gradient) = 2
    /\ Len(gradient[1].w) # Len(gradient[2].w)

\* C18: backprop is available only right after a predict of the same network:
\* a backprop with a target of the output layer's length returns a gradient
\* only when the call before it was a predict that returned, never on a
\* network just built or just updated.
C18_BackpropOnlyAfterPredict ==
    [][(/\ ret'.op = "backprop"
        /\ Len(ret'.arg) = OutputLayer(net).neuron_count
        /\ ret'.status = "ok") =>
          (ret.op = "predict" /\ ret.status = "ok")]_vars

\* C19: constructing a network from fewer than 2 layer sizes, or from a list
\* of activations whose length is not the number of layers - 1, fails with
\* the configuration error (ValueError) and produces no network.
C19_ConstructRejects ==
    [][(/\ ret'.op = "construct"
        /\ \/ Len(ret'.arg.counts) < 2
           \/ /\ ~ret'.arg.act.single
              /\ Len(ret'.arg.act.names) # Len(ret'.arg.counts) - 1) =>
          (ret'.status = "ValueError" /\ net' = NoNetwork /\ gradient' = gradient)]_vars

\* C19 witness: a construction from two layer sizes and a list of two
\* activations has failed
C19_Witness ==
    /\ ret.op = "construct"
    /\ ret.status = "ValueError"
    /\ Len(ret.arg.counts) = 2
    /\ ~ret.arg.act.single
    /\ Len(ret.arg.act.names) = 2
    /\ ~Built

\* C20: setting the weights, the bias or the activation of a neuron of the
\* input layer is always rejected with an error and leaves the network as it
\* was.
C20_InputLayerImmutable ==
    [][(ret'.op \in {"set_weights", "set_bias", "set_activation"} /\ ret'.arg = <<1>>) =>
          (ret'.status = "Exception" /\ net' = net /\ gradient' = gradient)]_vars

\* C20 witness: the activation of an input neuron was set, and rejected, on a
\* network that had predicted
C20_Witness ==
    /\ ret.op = "set_activation"
    /\ ret.arg = <<1>>
    /\ ret.status = "Exception"
    /\ net.layers[1].activations[1] # 0

\* C21: whatever the loss function, a current_cost that follows a predict and
\* is given a target vector of the output layer's length returns a scalar
\* cost and does not fail.
C21_CostAfterPredict ==
    [][(/\ ret.op = "predict"
        /\ ret.status = "ok"
        /\ ret'.op = "current_cost"
        /\ Len(ret'.arg) = OutputLayer(net).neuron_count) =>
          (ret'.status = "ok" /\ Len(ret'.val) = 1)]_vars

\* The output the weights, biases and activation functions of the layers from
\* k on give for the activations a of layer k - 1: nothing else of the network
\* is read.
RECURSIVE Infer(_, _, _)
Infer(layers, k, a) ==
    IF k > Len(layers) THEN a
    ELSE Infer(layers, k + 1,
               Activate(layers[k].activation_func,
                        [r \in 1..Len(layers[k].weights.val) |->
                            DotVec(layers[k].weights.val[r], a) + layers[k].biases.val[r]]))

\* C22: a predict that returns yields the output its input and the network's
\* weights and biases determine, whatever predict, current_cost, backprop or
\* other calls came before it.
C22_PredictDeterministic ==
    [][(ret'.op = "predict" /\ Len(ret'.arg) = net.layers[1].neuron_count) =>
          (ret'.status = "ok" /\ ret'.val = Infer(net.layers, 2, ret'.arg))]_vars

\* C22 witness: a predict on a network that has already predicted another
\* input and run backprop
C22_Witness ==
    /\ ret.op = "predict"
    /\ ret.status = "ok"
    /\ steps = 3
    /\ net.layers[2].z_grad.some
    /\ net.layers[1].activations # <<Scale, -Scale>>

\* C23: a constructor given one activation assigns it to every non-input
\* layer (a list is assigned entry by entry), and the input layer's
\* activation is the default, Sigmoid, whatever was passed and from then on.
C23_ActivationBroadcast ==
    [][/\ (ret'.op = "construct" /\ ret'.status = "ok") =>
            /\ Len(net'.layers) = Len(ret'.arg.counts)
            /\ \A i \in 2..Len(net'.layers) :
                 net'.layers[i].activation_func =
                    IF ret'.arg.act.single THEN ret'.arg.act.names[1]
                    ELSE ret'.arg.act.names[i - 1]
       /\ Len(net'.layers) > 0 => net'.layers[1].activation_func = "Sigmoid"]_vars

\* C23 witness: a network of three layers was constructed from the single
\* activation LeakyReLU
C23_Witness ==
    /\ ret.op = "construct"
    /\ ret.status = "ok"
    /\ ret.arg.act = OneActivation("LeakyReLU")
    /\ Len(net.layers) = 3
    /\ net.layers[3].activation_func = "LeakyReLU"

\* C24: init_weights called with (fan_in, fan_out) returns a matrix of
\* fan_out rows and fan_in columns, for each activation.
C24_InitWeightsShape ==
    (ret.op = "init_weights") =>
        /\ Len(ret.val) = ret.arg.output_size
        /\ \A r \in 1..Len(ret.val) : Len(ret.val[r]) = ret.arg.input_size

\* The weights and biases of the layers of a network
Params(network) ==
    [k \in 1..Len(network.layers) |->
        [weights |-> network.layers[k].weights, biases |-> network.layers[k].biases]]

\* The gradient of one example on a network: predict, then backprop
ExampleGradient(network, example) ==
    BackpropRun(PredictRun(network, example.inputs).net, example.targets).gradient

\* The elementwise sum of the gradients the examples of a batch from k on have
\* on one and the same network
RECURSIVE SumGradients(_, _, _)
SumGradients(network, batch, k) ==
    IF k = Len(batch)
    THEN Only({ [i \in 1..Len(g) |-> [w |-> g[i].w, b |-> g[i].b]]
                : g \in {ExampleGradient(network, batch[k])} })
    ELSE Only({ Only({
            [i \in 1..Len(g) |->
                [w |-> [r \in 1..Len(g[i].w) |-> [q \in 1..Len(g[i].w[r]) |->
                          g[i].w[r][q] + rest[i].w[r][q]]],
                 b |-> [r \in 1..Len(g[i].b) |-> g[i].b[r] + rest[i].b[r]]]]
            : rest \in {SumGradients(network, batch, k + 1)} })
         : g \in {ExampleGradient(network, batch[k])} })

\* C25: in train, the weights and biases change once per mini-batch, after
\* all its examples: by Adam's step on the sum of the gradients the examples
\* have on the parameters the batch began with, divided by the number of
\* examples of the batch (a shorter last batch by its own number); t grows by
\* one with each such update, and no other step of train changes t or a
\* parameter.
C25_OneUpdatePerBatch ==
    [][(tr.pc # "idle") =>
         IF tr.pc = "batch" /\ tr.batch_start < Len(tr.training_data) /\ tr'.pc # "idle"
         THEN \E batch \in {SubSeq(tr.training_data, tr.batch_start + 1,
                                   Min(tr.batch_start + tr.batch_size,
                                       Len(tr.training_data)))} :
              \E sum \in {SumGradients(net, batch, 1)} :
              \E mean \in {[i \in 1..Len(sum) |->
                             [w |-> [r \in 1..Len(sum[i].w) |-> [q \in 1..Len(sum[i].w[r]) |->
                                       RoundDiv(sum[i].w[r][q], Len(batch))]],
                              b |-> [r \in 1..Len(sum[i].b) |->
                                       RoundDiv(sum[i].b[r], Len(batch))]]]} :
              \E u \in {AdamStep(net.layers, tr.m_t, tr.v_t, tr.t + 1, mean,
                                 tr.learning_rate)} :
                 /\ tr'.t = tr.t + 1
                 /\ tr'.m_t = u.m_t
                 /\ tr'.v_t = u.v_t
                 /\ \A k \in 2..Len(net.layers) :
                      /\ net'.layers[k].weights = u.layers[k].weights
                      /\ net'.layers[k].biases = u.layers[k].biases
         ELSE /\ Params(net') = Params(net)
              /\ tr'.pc # "idle" => tr'.t = tr.t]_vars

\* C25 witness: the second batch of an epoch, one example where the first had
\* two, has updated the parameters
C25_Witness ==
    /\ tr.pc = "batch"
    /\ tr.batch_size = 2
    /\ Len(tr.training_data) = 3
    /\ tr.batch_start = 4
    /\ tr.t = 2

\* C26: when a backprop has returned, every gradient buffer holds what this
\* call computed from output to input: the output layer's a_grad is the loss
\* derivative of this call's targets, every layer below has
\* a_grad = W^T . z_grad of the layer above, and every non-input layer has
\* z_grad = activation derivative(z) * a_grad elementwise and
\* w_grad = outer(z_grad, activations of the layer below).
C26_BackwardOrder ==
    [][(ret'.op = "backprop" /\ ret'.status = "ok") =>
         LET layers == net'.layers
             n == Len(layers)
         IN  /\ layers[n].a_grad =
                  Some(LossDerivative(net.loss_func, net.layers[n].activations, ret'.arg).v)
             /\ \A k \in 2..n :
                  /\ layers[k].z_grad.some /\ layers[k].w_grad.some
                  /\ layers[k].a_grad.some /\ layers[k - 1].a_grad.some
                  /\ layers[k].z = net.layers[k].z
                  /\ layers[k].z_grad.val =
                       [i \in 1..Len(layers[k].z) |->
                          Mul(ActivateDerivative(layers[k].activation_func, layers[k].z)[i],
                              layers[k].a_grad.val[i])]
                  /\ layers[k].w_grad.val =
                       [r \in 1..Len(layers[k].z_grad.val) |->
                          [c \in 1..Len(layers[k - 1].activations) |->
                             Mul(layers[k].z_grad.val[r], layers[k - 1].activations[c])]]
                  /\ layers[k - 1].a_grad.val =
                       [c \in 1..layers[k - 1].neuron_count |->
                          SumSeq([r \in 1..Len(layers[k].z_grad.val) |->
                                    Mul(layers[k].weights.val[r][c],
                                        layers[k].z_grad.val[r])])]]_vars

\* C26 witness: a second backprop, with other targets, on a network of three
\* layers that held the gradients of a first
C26_Witness ==
    /\ ret.op = "backprop"
    /\ ret.status = "ok"
    /\ steps = 3
    /\ Len(net.layers) = 3
    /\ net.layers[2].a_grad.some
    /\ net.layers[3].a_grad.val # <<0, 0>>
    /\ ret.arg = <<0, Scale>>

\* The gradient buffers of the layers of a network
Grads(network) ==
    [k \in 1..Len(network.layers) |->
        [a_grad |-> network.layers[k].a_grad, z_grad |-> network.layers[k].z_grad,
         w_grad |-> network.layers[k].w_grad]]

\* C27: the validation pass at the end of an epoch of a train call with
\* validation_split > 0 only predicts and measures the cost: it changes no
\* weight and no bias, no gradient buffer, none of Adam's moments and not the
\* step counter t.
C27_ValidationFrame ==
    [][(/\ tr.pc = "batch"
        /\ tr.batch_start >= Len(tr.training_data)
        /\ tr.validation_split # 0) =>
          /\ Params(net') = Params(net)
          /\ Grads(net') = Grads(net)
          /\ gradient' = gradient
          /\ tr'.pc # "idle" =>
               /\ tr'.m_t = tr.m_t
               /\ tr'.v_t = tr.v_t
               /\ tr'.t = tr.t
               /\ net'.layers[Len(net.layers)].activations =
                    Infer(net.layers, 2, tr.validation_data[Len(tr.validation_data)].inputs)]_vars

\* C27 witness: an epoch that updated the parameters has ended with a
\* validation pass whose last example is not the last one trained on
C27_Witness ==
    /\ tr.pc = "epoch"
    /\ tr.epoch = 1
    /\ tr.t >= 1
    /\ tr.validation_data # <<>>
    /\ net.layers[1].activations = tr.validation_data[Len(tr.validation_data)].inputs
    /\ net.layers[1].activations # tr.training_data[Len(tr.training_data)].inputs

\* An example whose input or target has not the length the network takes
WrongLength(network, example) ==
    \/ Len(example.inputs) # network.layers[1].neuron_count
    \/ Len(example.targets) # OutputLayer(network).neuron_count

\* predict and current_cost both return for the example
ExampleCostRuns(network, example) ==
    /\ PredictRun(network, example.inputs).status = "ok"
    /\ CurrentCostRun(PredictRun(network, example.inputs).net, example.targets).status = "ok"

\* The first example of wrong length in data, reached with every example
\* before it running through, is at index k
FirstWrongAt(network, data, k, with_backprop) ==
    /\ WrongLength(network, data[k])
    /\ \A j \in 1..(k - 1) :
         /\ ~WrongLength(network, data[j])
         /\ ExampleCostRuns(network, data[j])
         /\ with_backprop =>
              BackpropRun(PredictRun(network, data[j].inputs).net,
                          data[j].targets).status = "ok"

\* C28: when train comes to an example whose input or target has the wrong
\* length, in a mini-batch or in the validation pass, it ends there with the
\* shape-mismatch error (ValueError); the weights and biases are those the
\* mini-batches completed before had left, and the failing batch has updated
\* nothing.
C28_TrainStopsAtWrongLength ==
    [][(tr.pc = "batch") =>
         LET data == IF tr.batch_start < Len(tr.training_data)
                     THEN SubSeq(tr.training_data, tr.batch_start + 1,
                                 Min(tr.batch_start + tr.batch_size, Len(tr.training_data)))
                     ELSE IF tr.count # 0 /\ tr.validation_split # 0
                     THEN tr.validation_data
                     ELSE <<>>
         IN  (\E k \in 1..Len(data) :
                 FirstWrongAt(net, data, k, tr.batch_start < Len(tr.training_data))) =>
               /\ tr'.pc = "idle"
               /\ ret'.op = "train"
               /\ ret'.status = "ValueError"
               /\ ret'.val = <<tr.epoch>>
               /\ Params(net') = Params(net)]_vars

\* C28 witness: a train call of batches of one example has ended at its
\* second batch, whose example has the wrong length, with the first batch's
\* update in the weights
C28_Witness ==
    /\ ret.op = "train"
    /\ ret.status = "ValueError"
    /\ ret.arg = TrainArgs(<<ExampleA, ExampleC>>, 1, 1, 0)
    /\ Len(net.layers) = 2
    /\ net.layers[1].neuron_count = 2
    /\ net.layers[1].activations = ExampleA.inputs
    /\ net.layers[2].z_grad.some
    /\ net.layers[2].weights.val # InitWeights(net.layers[2].activation_func, 1, 2, 0)
    /\ net.layers[2].weights.val # InitWeights(net.layers[2].activation_func, 1, 2, 1)
    /\ net.layers[2].weights.val # InitWeights(net.layers[2].activation_func, 1, 2, 2)
    /\ net.layers[2].weights.val # InitWeights(net.layers[2].activation_func, 1, 2, 3)

\* C29: update_weights clips in place: when it has returned, the arrays of
\* the list it was given hold the clipped values, and where an array is a
\* layer's own w_grad or z_grad buffer (the list backprop returned) the
\* layer's buffer holds them too; a buffer that was not passed is untouched.
C29_ClipInPlace ==
    [][(ret'.op = "update_weights" /\ ret'.status = "ok") =>
         \E g \in {gradient, FreshGradient(net)} :
            /\ Len(gradient') = Len(g)
            /\ \A i \in 1..Len(g) :
                 /\ gradient'[i].w_alias = g[i].w_alias
                 /\ gradient'[i].b_alias = g[i].b_alias
                 /\ \A r \in 1..Len(g[i].w) : \A c \in 1..Len(g[i].w[r]) :
                      gradient'[i].w[r][c] = Clip(g[i].w[r][c], -Scale, Scale)
                 /\ \A r \in 1..Len(g[i].b) :
                      gradient'[i].b[r] = Clip(g[i].b[r], -Scale, Scale)
                 /\ net'.layers[i + 1].w_grad =
                      IF g[i].w_alias THEN Some(gradient'[i].w) ELSE net.layers[i + 1].w_grad
                 /\ net'.layers[i + 1].z_grad =
                      IF g[i].b_alias THEN Some(gradient'[i].b) ELSE net.layers[i + 1].z_grad]_vars

\* C29 witness: update_weights was given the list backprop returned, and the
\* output layer's z_grad buffer is no longer what backprop computed
C29_Witness ==
    /\ ret.op = "update_weights"
    /\ ret.status = "ok"
    /\ gradient[Len(gradient)].b_alias
    /\ OutputLayer(net).z_grad = Some(gradient[Len(gradient)].b)
    /\ OutputLayer(net).z_grad.val #
          [i \in 1..Len(OutputLayer(net).z) |->
              Mul(ActivateDerivative(OutputLayer(net).activation_func, OutputLayer(net).z)[i],
                  OutputLayer(net).a_grad.val[i])]

\* C30: the cost is not saved: a network that load returns has the cost of an
\* untrained network, -1, whatever the cost of the network that was saved.
C30_CostNotPersisted ==
    [][(ret'.op = "load" /\ ret'.status = "ok" /\ ~ret'.none) =>
          net'.cost = UntrainedCost]_vars

\* C30 witness: load has returned the network a trained network was saved as
C30_Witness ==
    /\ ret.op = "load"
    /\ ret.status = "ok"
    /\ ~ret.none
    /\ saved[ret.path].valid
    /\ saved[ret.path].net.cost >= 0
    /\ net.cost = UntrainedCost

====
